---- MODULE Spec2Model ----
(***************************************************************************)
(* Model of the 2D drawing core of crates/cadhy-cad/cpp/bridge.cpp:        *)
(*   - generate_hatch_lines_for_region  (scanline cross-hatching)          *)
(*   - polygon_signed_area              (shoelace formula)                 *)
(*   - compute_hlr_projection, compute_hlr_projection_v2,                  *)
(*     compute_section, compute_section_with_hatch                         *)
(* Coordinates are exact rationals <<num, den>> (den > 0, reduced); the    *)
(* inputs are integers, for which the double arithmetic of the source is   *)
(* exact wherever the model compares a value with a vertex or a bound.     *)
(***************************************************************************)
EXTENDS Integers, Sequences, FiniteSets, TLC

\* ------------------------------------------------------------------------
\* Bounds of the model
\* ------------------------------------------------------------------------
GridMax == 2
MaxSpacing == 2
MaxEdges == 1
MaxWires == 2
FrameMax == 1
MaxPrims == 2

\* ------------------------------------------------------------------------
\* Exact rational arithmetic (the model's stand-in for double)
\* ------------------------------------------------------------------------
Abs(n) == IF n < 0 THEN -n ELSE n

RECURSIVE GCD(_, _)
GCD(a, b) == IF b = 0 THEN a ELSE GCD(b, a % b)

Rat(n, d) ==
    LET s == IF d < 0 THEN -1 ELSE 1
        g == GCD(Abs(n), Abs(d))
    IN  <<(s * n) \div g, (s * d) \div g>>

RInt(n) == <<n, 1>>
RAdd(a, b) == Rat(a[1] * b[2] + b[1] * a[2], a[2] * b[2])
RSub(a, b) == Rat(a[1] * b[2] - b[1] * a[2], a[2] * b[2])
RMul(a, b) == Rat(a[1] * b[1], a[2] * b[2])
RDiv(a, b) == Rat(a[1] * b[2], a[2] * b[1])
RNeg(a) == <<-a[1], a[2]>>
RLess(a, b) == a[1] * b[2] < b[1] * a[2]
RLeq(a, b) == a[1] * b[2] <= b[1] * a[2]
RAbs(a) == <<Abs(a[1]), a[2]>>
RZero == RInt(0)
ROne == RInt(1)

\* a < 1/(t1*t2), for a >= 0, without forming t1*t2
RBelowInv(a, t1, t2) ==
    LET c1 == (a[2] + t1 - 1) \div t1
        c2 == (c1 + t2 - 1) \div t2
    IN  a[1] < c2

\* ------------------------------------------------------------------------
\* Polygons on the integer grid (the inputs of the hatcher and of the
\* shoelace formula)
\* ------------------------------------------------------------------------
GridPoints == (0..GridMax) \X {0, 1, 2}

\* twice the signed area of the triangle a, b, c
Orient(a, b, c) == (b[1] - a[1]) * (c[2] - a[2]) - (b[2] - a[2]) * (c[1] - a[1])

Sign(n) == IF n > 0 THEN 1 ELSE IF n < 0 THEN -1 ELSE 0

Min2(a, b) == IF a < b THEN a ELSE b
Max2(a, b) == IF a > b THEN a ELSE b

\* c lies on the closed segment a-b
OnSegment(a, b, c) ==
    /\ Orient(a, b, c) = 0
    /\ Min2(a[1], b[1]) <= c[1] /\ c[1] <= Max2(a[1], b[1])
    /\ Min2(a[2], b[2]) <= c[2] /\ c[2] <= Max2(a[2], b[2])

\* the closed segments a-b and c-d have a common point
SegmentsMeet(a, b, c, d) ==
    \/ /\ Sign(Orient(a, b, c)) * Sign(Orient(a, b, d)) < 0
       /\ Sign(Orient(c, d, a)) * Sign(Orient(c, d, b)) < 0
    \/ OnSegment(a, b, c) \/ OnSegment(a, b, d)
    \/ OnSegment(c, d, a) \/ OnSegment(c, d, b)

Succ(j, n) == (j % n) + 1

\* A simple closed polygon: distinct vertices, edges that are neighbours meet
\* only in their common vertex, edges that are not neighbours do not meet.
IsSimplePolygon(p) ==
    LET n == Len(p) IN
    /\ n >= 3
    /\ \A j, k \in 1..n : j # k => p[j] # p[k]
    /\ \A j \in 1..n :
          LET a == p[j]  b == p[Succ(j, n)]  c == p[Succ(Succ(j, n), n)]
          IN  ~ (OnSegment(a, b, c) \/ OnSegment(b, c, a))
    /\ \A j, k \in 1..n :
          (j < k /\ Succ(j, n) # k /\ Succ(k, n) # j) =>
              ~ SegmentsMeet(p[j], p[Succ(j, n)], p[k], p[Succ(k, n)])

\* a before b in the lexicographic order of the points
PointBefore(a, b) == a[1] < b[1] \/ (a[1] = b[1] /\ a[2] < b[2])

\* the triangles and quadrilaterals of the grid, each vertex list starting at
\* its least vertex (both windings are present)
SimplePolygons ==
    UNION { { p \in [1..n -> GridPoints] :
                /\ \A j \in 2..n : PointBefore(p[1], p[j])
                /\ IsSimplePolygon(p) } : n \in {3, 4} }

\* ------------------------------------------------------------------------
\* Hatch angles.  angle_deg is given in degrees; the model keeps the angles
\* whose cosine and sine are rational (c/r, s/r with c*c + s*s = r*r).
\* ------------------------------------------------------------------------
HatchAngles ==
    { [deg |-> "0",      c |-> 1,  s |-> 0,  r |-> 1],
      [deg |-> "90",     c |-> 0,  s |-> 1,  r |-> 1],
      [deg |-> "180",    c |-> -1, s |-> 0,  r |-> 1],
      [deg |-> "53.13",  c |-> 3,  s |-> 4,  r |-> 5],
      [deg |-> "-36.87", c |-> 4,  s |-> -3, r |-> 5] }

cos_a(angle) == Rat(angle.c, angle.r)
sin_a(angle) == Rat(angle.s, angle.r)

\* ------------------------------------------------------------------------
\* generate_hatch_lines_for_region
\* ------------------------------------------------------------------------
\* 1e-10 = 1 / (PARALLEL_EPS_INV_ROOT * PARALLEL_EPS_INV_ROOT)
PARALLEL_EPS_INV_ROOT == 100000
\* 1e-6 = 1 / MIN_HATCH_LEN_INV
MIN_HATCH_LEN_INV == 1000000

\* static_cast<int>(diag / spacing) for diag = sqrt(w*w + h*h): the largest
\* k >= 0 with k * spacing <= diag
RECURSIVE DiagOverSpacing(_, _, _)
DiagOverSpacing(sq, spacing, k) ==
    IF (k + 1) * spacing * (k + 1) * spacing <= sq
    THEN DiagOverSpacing(sq, spacing, k + 1)
    ELSE k

\* int num_lines = static_cast<int>(diag / spacing) + 2
HatchNumLines(rect, spacing) ==
    LET w == rect.max_x - rect.min_x
        h == rect.max_y - rect.min_y
    IN  DiagOverSpacing(w * w + h * h, spacing, 0) + 2

\* the point (hx, hy) the i-th hatch line passes through
HatchOrigin(rect, angle, spacing, i) ==
    LET cx == Rat(rect.min_x + rect.max_x, 2)
        cy == Rat(rect.min_y + rect.max_y, 2)
        offset == RInt(i * spacing)
    IN  [hx |-> RAdd(cx, RMul(offset, sin_a(angle))),
         hy |-> RSub(cy, RMul(offset, cos_a(angle)))]

\* an edge is skipped as parallel when |denom| < 1e-10
IsParallel(denom) ==
    RBelowInv(RAbs(denom), PARALLEL_EPS_INV_ROOT, PARALLEL_EPS_INV_ROOT)

EdgeParamAccepted_Any(t_edge) == TRUE

\* the edge parameter is accepted when t_edge >= 0.0 && t_edge <= 1.0
EdgeParamAccepted(t_edge) == RLeq(RZero, t_edge) /\ RLeq(t_edge, ROne)

\* the body of the loop over the edges for edge j -> k: the t_hatch pushed
\* on intersections, or nothing
EdgeCrossing(boundary, j, h, angle) ==
    LET n == Len(boundary)
        k == Succ(j, n)
        x1 == RInt(boundary[j][1])
        y1 == RInt(boundary[j][2])
        dx == RInt(boundary[k][1] - boundary[j][1])
        dy == RInt(boundary[k][2] - boundary[j][2])
        ca == cos_a(angle)
        sa == sin_a(angle)
        denom == RSub(RMul(dx, sa), RMul(dy, ca))
    IN  IF IsParallel(denom) THEN <<>>
        ELSE LET t_edge == RDiv(RSub(RMul(RSub(h.hx, x1), sa),
                                     RMul(RSub(h.hy, y1), ca)), denom)
                 ix == RAdd(x1, RMul(t_edge, dx))
                 iy == RAdd(y1, RMul(t_edge, dy))
                 t_hatch == RAdd(RMul(RSub(ix, h.hx), ca), RMul(RSub(iy, h.hy), sa))
             IN  IF EdgeParamAccepted(t_edge) THEN <<t_hatch>> ELSE <<>>

RECURSIVE CollectFrom(_, _, _, _)
CollectFrom(boundary, j, h, angle) ==
    IF j > Len(boundary) THEN <<>>
    ELSE EdgeCrossing(boundary, j, h, angle) \o CollectFrom(boundary, j + 1, h, angle)

SortAsc_Unsorted(ts) == ts

\* std::sort(intersections.begin(), intersections.end())
RECURSIVE InsertSorted(_, _)
InsertSorted(t, sorted) ==
    IF sorted = <<>> THEN <<t>>
    ELSE IF RLeq(t, Head(sorted)) THEN <<t>> \o sorted
    ELSE <<Head(sorted)>> \o InsertSorted(t, Tail(sorted))

RECURSIVE SortAsc(_)
SortAsc(ts) == IF ts = <<>> THEN <<>> ELSE InsertSorted(Head(ts), SortAsc(Tail(ts)))

\* the crossings collected for one hatch line, sorted
LineIntersections(boundary, h, angle) == SortAsc(CollectFrom(boundary, 1, h, angle))

LongEnough_Always(t1, t2) == TRUE

\* len > 1e-6, for the segment from t1 to t2 along the unit direction
\* (cos_a, sin_a): sqrt(dx^2 + dy^2) = |t2 - t1|
LongEnough(t1, t2) ==
    LET len == RAbs(RSub(t2, t1))
    IN  ~ RLeq(RMul(len, RInt(MIN_HATCH_LEN_INV)), ROne)

HatchLineFFI(h, angle, t1, t2) ==
    [start_x |-> RAdd(h.hx, RMul(t1, cos_a(angle))),
     start_y |-> RAdd(h.hy, RMul(t1, sin_a(angle))),
     end_x   |-> RAdd(h.hx, RMul(t2, cos_a(angle))),
     end_y   |-> RAdd(h.hy, RMul(t2, sin_a(angle)))]

RECURSIVE PairUp_EveryPair(_, _)
PairUp_EveryPair(ts, j) ==
    IF j + 1 > Len(ts) THEN <<>>
    ELSE (IF LongEnough(ts[j], ts[j + 1]) THEN << <<ts[j], ts[j + 1]>> >> ELSE <<>>)
         \o PairUp_EveryPair(ts, j + 1)

\* for (j = 0; j + 1 < intersections.size(); j += 2): the pairs (t1, t2) kept
RECURSIVE PairUp(_, _)
PairUp(ts, j) ==
    IF j + 1 > Len(ts) THEN <<>>
    ELSE (IF LongEnough(ts[j], ts[j + 1]) THEN << <<ts[j], ts[j + 1]>> >> ELSE <<>>)
         \o PairUp(ts, j + 2)

\* the segments pushed on hatch_lines for hatch line i
LineSegments(ts, h, angle) ==
    LET pairs == PairUp(ts, 1)
    IN  [m \in 1..Len(pairs) |-> HatchLineFFI(h, angle, pairs[m][1], pairs[m][2])]

\* the loop for (int i = -num_lines; i <= num_lines; i++) from i on
RECURSIVE HatchLinesFrom(_, _, _, _, _, _)
HatchLinesFrom(boundary, angle, spacing, rect, i, n) ==
    IF i > n THEN <<>>
    ELSE LET h == HatchOrigin(rect, angle, spacing, i) IN
         LineSegments(LineIntersections(boundary, h, angle), h, angle)
           \o HatchLinesFrom(boundary, angle, spacing, rect, i + 1, n)

\* the whole call: the hatch segments appended to the region
generate_hatch_lines_for_region(boundary, angle, spacing, rect) ==
    IF Len(boundary) < 3 \/ spacing <= 0 THEN <<>>
    ELSE HatchLinesFrom(boundary, angle, spacing, rect,
                        - HatchNumLines(rect, spacing), HatchNumLines(rect, spacing))

\* ------------------------------------------------------------------------
\* polygon_signed_area and the region built from it
\* ------------------------------------------------------------------------
\* the loop of polygon_signed_area from index i on: area += x_i * y_j,
\* area -= x_j * y_i with j = (i + 1) % n
RECURSIVE ShoelaceFrom(_, _)
ShoelaceFrom(pts, i) ==
    IF i > Len(pts) THEN 0
    ELSE LET j == Succ(i, Len(pts))
         IN  pts[i][1] * pts[j][2] - pts[j][1] * pts[i][2] + ShoelaceFrom(pts, i + 1)

\* the loop with the closing edge left out (j = i + 1 only while j < n)
RECURSIVE OpenShoelaceFrom(_, _)
OpenShoelaceFrom(pts, i) ==
    IF i >= Len(pts) THEN 0
    ELSE pts[i][1] * pts[i + 1][2] - pts[i + 1][1] * pts[i][2] + OpenShoelaceFrom(pts, i + 1)

polygon_signed_area_open(pts) == Rat(OpenShoelaceFrom(pts, 1), 2)

\* return area / 2.0
polygon_signed_area(pts) == Rat(ShoelaceFrom(pts, 1), 2)

\* region.area = std::abs(signed area); region.is_outer = signed area > 0
HatchRegionOf(pts) ==
    [area |-> RAbs(polygon_signed_area(pts)),
     is_outer |-> RLess(RZero, polygon_signed_area(pts))]

\* ------------------------------------------------------------------------
\* The geometry kernel as seen by the HLR entry points: shapes, directions,
\* the edges of the six visibility groups, the 3D bounding box
\* ------------------------------------------------------------------------
\* numeric_limits<double>::max(), a stand-in larger than every coordinate;
\* numeric_limits<double>::lowest() is -DBL_MAX
DBL_MAX == 1000000

\* shape.is_null(); a shape with zero faces and zero edges; any other shape
Shapes == {"null", "empty", "solid"}

ViewDirs == { <<0, 0, 0>>, <<0, -1, 0>>, <<0, 0, 1>>, <<-1, 0, 0>>, <<3, 4, 0>> }
UpDirs == { <<0, 0, 0>>, <<0, 0, 1>>, <<0, -1, 0>>, <<1, 0, 0>> }
Scales == { 1, 2, -1 }

Dot3(a, b) == a[1] * b[1] + a[2] * b[2] + a[3] * b[3]
Cross3(a, b) == << a[2] * b[3] - a[3] * b[2],
                   a[3] * b[1] - a[1] * b[3],
                   a[1] * b[2] - a[2] * b[1] >>
Zero3 == <<0, 0, 0>>

\* len < 1e-10 for len = sqrt(dir . dir), integer components
IsZeroLength(v) == Dot3(v, v) = 0

\* gp_Dir(x, y, z) raises Standard_ConstructionError for a null vector
GpDirRaises(v) == IsZeroLength(v)

\* upDir.Crossed(viewDir) raises when the two directions are parallel
CrossedRaises(a, b) == Cross3(a, b) = Zero3

\* xAxis = upDir.Crossed(viewDir), or gp_Dir(1, 0, 0) in the catch block
BasisXAxis(up, dir) == IF CrossedRaises(up, dir) THEN <<1, 0, 0>> ELSE Cross3(up, dir)

\* the kinds of exception a kernel call or an allocation can raise
ExcKinds == {"Standard_Failure", "std_exception", "unknown"}

\* The edges the kernel hands out (2D, in the projection plane).
\*   kind: "Null" (no 3D curve), "Line", "Circle", "Ellipse", "Other"
\*   s, e: curve->Value(first), curve->Value(last)
\*   c, r, r2: centre, (major) radius, minor radius
\*   first, last: the parameter range, as multiples of pi/2
\*   rev: edge.Orientation() == TopAbs_REVERSED
\*   pts: the points of GCPnts_TangentialDeflection
KEdge(kind, s, e, c, r, r2, first, last, rev, pts) ==
    [kind |-> kind, s |-> s, e |-> e, c |-> c, r |-> r, r2 |-> r2,
     first |-> first, last |-> last, rev |-> rev, pts |-> pts]

EdgePool ==
    { KEdge("Null",    <<0, 0>>,  <<0, 0>>,  <<0, 0>>, 0, 0, 0, 1, FALSE, <<>>),
      KEdge("Line",    <<0, 0>>,  <<2, 1>>,  <<0, 0>>, 0, 0, 0, 1, FALSE, <<>>),
      KEdge("Line",    <<-1, 3>>, <<1, -2>>, <<0, 0>>, 0, 0, 0, 1, TRUE,  <<>>),
      KEdge("Line",    <<1, 1>>,  <<1, 1>>,  <<0, 0>>, 0, 0, 0, 0, FALSE, <<>>),
      KEdge("Circle",  <<3, 1>>,  <<1, 3>>,  <<1, 1>>, 2, 2, 0, 1, FALSE, <<>>),
      KEdge("Circle",  <<2, 0>>,  <<2, 0>>,  <<0, 0>>, 2, 2, 0, 4, TRUE,  <<>>),
      KEdge("Circle",  <<0, 2>>,  <<0, 2>>,  <<0, 0>>, 2, 2, 1, 5, FALSE, <<>>),
      KEdge("Ellipse", <<4, 1>>,  <<-2, 1>>, <<1, 1>>, 3, 1, 0, 2, FALSE, <<>>),
      KEdge("Other",   <<0, 0>>,  <<2, 0>>,  <<0, 0>>, 0, 0, 0, 1, FALSE,
            << <<0, 0>>, <<1, 3>>, <<2, 0>> >>),
      KEdge("Other",   <<4, 4>>,  <<5, 5>>,  <<0, 0>>, 0, 0, 0, 1, FALSE,
            << <<4, 4>> >>) }

\* the edge lists the classifier can hand out when n more edges fit the bound
EdgeLists(n) == UNION { [1..k -> EdgePool] : k \in 0..n }

\* Bnd_Box of the shape: IsVoid(), and Get(xmin, ymin, zmin, xmax, ymax, zmax)
Box3D(void, xmin, ymin, zmin, xmax, ymax, zmax) ==
    [void |-> void, xmin |-> xmin, ymin |-> ymin, zmin |-> zmin,
     xmax |-> xmax, ymax |-> ymax, zmax |-> zmax]

NoBox == Box3D(TRUE, 0, 0, 0, 0, 0, 0)

Boxes3D == { NoBox, Box3D(FALSE, -1, -2, -3, 1, 2, 3), Box3D(FALSE, 0, 0, 0, 2, 4, 0) }

\* ------------------------------------------------------------------------
\* extract_2d_edges, extract_bbox_edges (compute_hlr_projection)
\* ------------------------------------------------------------------------
Min3(a, b, c) == Min2(a, Min2(b, c))
Max3(a, b, c) == Max2(a, Max2(b, c))

Line2DFFI(sx, sy, ex, ey, line_type) ==
    [start_x |-> sx, start_y |-> sy, end_x |-> ex, end_y |-> ey, line_type |-> line_type]

\* if (len <= 1e-7) continue, for integer coordinates
IsDegenerate(edge) == edge.s = edge.e

\* one pass of the loop of extract_2d_edges over the edges of a group
RECURSIVE extract_2d_edges(_, _, _)
extract_2d_edges(edges, line_type, res) ==
    IF edges = <<>> THEN res
    ELSE LET edge == Head(edges)
             line == Line2DFFI(edge.s[1], edge.s[2], edge.e[1], edge.e[2], line_type)
             next ==
                 IF edge.kind = "Null" \/ IsDegenerate(edge) THEN res
                 ELSE [res EXCEPT
                         !.min_x = Min3(@, line.start_x, line.end_x),
                         !.min_y = Min3(@, line.start_y, line.end_y),
                         !.max_x = Max3(@, line.start_x, line.end_x),
                         !.max_y = Max3(@, line.start_y, line.end_y),
                         !.lines = Append(@, line)]
         IN  extract_2d_edges(Tail(edges), line_type, next)

Dominant_Half(d, dir) == 4 * d * d > Dot3(dir, dir)

\* |d| > 0.9 for the component d of the normalized view direction dir
Dominant(d, dir) == 100 * d * d > 81 * Dot3(dir, dir)

\* the projected rectangle (p_xmin, p_ymin, p_xmax, p_ymax) of extract_bbox_edges
ProjectedBox(box, dir, scale) ==
    IF Dominant(dir[2], dir)
    THEN <<box.xmin * scale, box.zmin * scale, box.xmax * scale, box.zmax * scale>>
    ELSE IF Dominant(dir[3], dir)
    THEN <<box.xmin * scale, box.ymin * scale, box.xmax * scale, box.ymax * scale>>
    ELSE IF Dominant(dir[1], dir)
    THEN <<box.ymin * scale, box.zmin * scale, box.ymax * scale, box.zmax * scale>>
    ELSE <<box.xmin * scale, box.ymin * scale, box.xmax * scale, box.ymax * scale>>

\* extract_bbox_edges: nothing for a void box, else the 4 outline edges
extract_bbox_edges(box, res, dir, scale) ==
    IF box.void THEN res
    ELSE LET p == ProjectedBox(box, dir, scale)
         IN  [res EXCEPT
                 !.lines = @ \o << Line2DFFI(p[1], p[2], p[3], p[2], 4),
                                   Line2DFFI(p[3], p[2], p[3], p[4], 4),
                                   Line2DFFI(p[3], p[4], p[1], p[4], 4),
                                   Line2DFFI(p[1], p[4], p[1], p[2], 4) >>,
                 !.min_x = p[1], !.min_y = p[2], !.max_x = p[3], !.max_y = p[4]]

ScaleLine(line, scale) ==
    [line EXCEPT !.start_x = @ * scale, !.start_y = @ * scale,
                 !.end_x = @ * scale, !.end_y = @ * scale]

ScaleBBox(res, scale) ==
    [res EXCEPT !.min_x = @ * scale, !.min_y = @ * scale,
                !.max_x = @ * scale, !.max_y = @ * scale]

ZeroBBox(res) == [res EXCEPT !.min_x = 0, !.min_y = 0, !.max_x = 0, !.max_y = 0]

\* ------------------------------------------------------------------------
\* extract_2d_curves (compute_hlr_projection_v2); the angle fields of
\* Curve2DFFI (start_angle, end_angle, rotation) are left out
\* ------------------------------------------------------------------------
Curve2DFFI(curve_type, line_type, edge, c, r, major, minor, ccw) ==
    [curve_type |-> curve_type, line_type |-> line_type,
     start_x |-> edge.s[1], start_y |-> edge.s[2],
     end_x |-> edge.e[1], end_y |-> edge.e[2],
     center_x |-> c[1], center_y |-> c[2],
     radius |-> r, major_radius |-> major, minor_radius |-> minor, ccw |-> ccw]

\* std::abs(first) < 1e-10 && std::abs(last - 2.0 * M_PI) < 1e-10, with the
\* parameters in multiples of pi/2
IsFullCircle(edge) == edge.first = 0 /\ edge.last = 4

\* the bbox grown by the point (x, y)
GrowBBox(res, x, y) ==
    [res EXCEPT !.min_x = Min2(@, x), !.min_y = Min2(@, y),
                !.max_x = Max2(@, x), !.max_y = Max2(@, y)]

RECURSIVE GrowBBoxAll(_, _)
GrowBBoxAll(res, pts) ==
    IF pts = <<>> THEN res
    ELSE GrowBBoxAll(GrowBBox(res, Head(pts)[1], Head(pts)[2]), Tail(pts))

\* the bbox grown by centre +/- radius
GrowBBoxRadius(res, c, r) ==
    GrowBBox(GrowBBox(res, c[1] - r, c[2] - r), c[1] + r, c[2] + r)

\* the body of the loop of extract_2d_curves for one edge; st is the pair
\* of the result and the counters numLines, numArcs, numPolylines
ExtractCurve(edge, line_type, st) ==
    IF edge.kind = "Null" THEN st
    ELSE IF IsDegenerate(edge) /\ edge.kind = "Line" THEN st
    ELSE
    LET res == GrowBBox(GrowBBox(st.res, edge.s[1], edge.s[2]), edge.e[1], edge.e[2])
        ccw == ~ edge.rev
    IN  CASE edge.kind = "Line" ->
               [res |-> [res EXCEPT !.curves = Append(@,
                            Curve2DFFI(0, line_type, edge, <<0, 0>>, 0, 0, 0, FALSE))],
                cnt |-> [st.cnt EXCEPT !.numLines = @ + 1],
                extracted |-> st.extracted + 1]
          [] edge.kind = "Circle" ->
               [res |-> [GrowBBoxRadius(res, edge.c, edge.r) EXCEPT !.curves = Append(@,
                            Curve2DFFI(IF IsFullCircle(edge) THEN 2 ELSE 1, line_type, edge,
                                       edge.c, edge.r, edge.r, edge.r, ccw))],
                cnt |-> [st.cnt EXCEPT !.numArcs = @ + 1],
                extracted |-> st.extracted + 1]
          [] edge.kind = "Ellipse" ->
               [res |-> [GrowBBoxRadius(res, edge.c, edge.r) EXCEPT !.curves = Append(@,
                            Curve2DFFI(3, line_type, edge, edge.c, edge.r, edge.r, edge.r2,
                                       ccw))],
                cnt |-> [st.cnt EXCEPT !.numArcs = @ + 1],
                extracted |-> st.extracted + 1]
          [] OTHER ->
               IF Len(edge.pts) >= 2
               THEN [res |-> [GrowBBoxAll(res, edge.pts) EXCEPT !.polylines = Append(@,
                                [line_type |-> line_type, points |-> edge.pts])],
                     cnt |-> [st.cnt EXCEPT !.numPolylines = @ + 1],
                     extracted |-> st.extracted + 1]
               ELSE [st EXCEPT !.res = res]

RECURSIVE extract_2d_curves(_, _, _)
extract_2d_curves(edges, line_type, st) ==
    IF edges = <<>> THEN st
    ELSE extract_2d_curves(Tail(edges), line_type, ExtractCurve(Head(edges), line_type, st))

ScaleCurve(c, scale) ==
    [c EXCEPT !.start_x = @ * scale, !.start_y = @ * scale,
              !.end_x = @ * scale, !.end_y = @ * scale,
              !.center_x = @ * scale, !.center_y = @ * scale,
              !.radius = @ * scale, !.major_radius = @ * scale,
              !.minor_radius = @ * scale]

ScalePolyline(pl, scale) ==
    [pl EXCEPT !.points = [m \in 1..Len(@) |-> <<@[m][1] * scale, @[m][2] * scale>>]]

\* if (scale != 1.0): every curve, every polyline point and the bbox
ApplyScaleV2(res, scale) ==
    IF scale # 1
    THEN ScaleBBox([res EXCEPT
                      !.curves = [m \in 1..Len(@) |-> ScaleCurve(@[m], scale)],
                      !.polylines = [m \in 1..Len(@) |-> ScalePolyline(@[m], scale)]],
                   scale)
    ELSE res

\* the catch clauses of an entry point, in order: the kinds each one catches
\* and whether its handler zeroes the bbox
CatchClauses_NoCatchAll(f) ==
    IF f = "hlr"
    THEN << [catches |-> {"Standard_Failure"}, zero |-> TRUE],
            [catches |-> {"std_exception"}, zero |-> TRUE] >>
    ELSE IF f \in {"hlr_v2", "section_hatch"}
    THEN << [catches |-> {"Standard_Failure"}, zero |-> TRUE],
            [catches |-> {"std_exception"}, zero |-> FALSE] >>
    ELSE << [catches |-> {"Standard_Failure"}, zero |-> FALSE] >>

CatchClauses(f) ==
    IF f = "hlr"
    THEN << [catches |-> {"Standard_Failure"}, zero |-> TRUE],
            [catches |-> {"std_exception"}, zero |-> TRUE],
            [catches |-> ExcKinds, zero |-> TRUE] >>
    ELSE IF f \in {"hlr_v2", "section_hatch"}
    THEN << [catches |-> {"Standard_Failure"}, zero |-> TRUE],
            [catches |-> {"std_exception"}, zero |-> FALSE],
            [catches |-> ExcKinds, zero |-> FALSE] >>
    ELSE << [catches |-> ExcKinds, zero |-> FALSE] >>

\* the first catch clause that matches, or 0 when the exception leaves the
\* function
MatchingClause(f, kind) ==
    LET cs == CatchClauses(f)
        hits == { n \in 1..Len(cs) : kind \in cs[n].catches }
    IN  IF hits = {} THEN 0 ELSE CHOOSE n \in hits : \A o \in hits : n <= o

\* ------------------------------------------------------------------------
\* State
\* ------------------------------------------------------------------------
VARIABLES
    hatch_in,       \* the arguments of generate_hatch_lines_for_region
    hpc,            \* its position: "idle", "entry", "loop", "done"
    hi,             \* the loop variable i
    num_lines,      \* the local num_lines
    intersections,  \* the local intersections of the last hatch line, sorted
    line_base,      \* hatch_lines.size() when the last hatch line was started
    hatch_lines     \* the output list

hatchVars == <<hatch_in, hpc, hi, num_lines, intersections, line_base, hatch_lines>>

VARIABLES
    area_pts,       \* the point list handed to polygon_signed_area
    area_op,        \* how area_pts was obtained: "none", "given", "rotate", "reverse"
    area_val,       \* the value polygon_signed_area returned for area_pts
    area_prev,      \* the value it returned for the list area_pts was made from
    area_region     \* the region (area, is_outer) built from area_pts

areaVars == <<area_pts, area_op, area_val, area_prev, area_region>>

VARIABLES
    fn,             \* the entry point called: "hlr", "hlr_v2", "section", "section_hatch"
    cpc,            \* its position; "returned" or "propagated" at the end
    args,           \* its arguments
    result,         \* the result value under construction
    group,          \* the number of visibility groups extracted so far (0..6)
    examined,       \* the number of edges the classifier has handed out
    locals,         \* its local counters (totalExtracted; numLines, ...)
    box3d,          \* the 3D bounding box the fallback obtained
    caught,         \* the kind of the exception caught, or "none"
    raised_at       \* the position at which it was raised, or "none"

callVars == <<fn, cpc, args, result, locals, group, examined, box3d,
              caught, raised_at>>

vars == <<hatchVars, areaVars, callVars>>

\* the bounding rectangle of a point list, widened by pad on every side
\* (the zero rectangle for the empty list)
BoundsOf(pts, pad) ==
    IF pts = <<>> THEN [min_x |-> 0, min_y |-> 0, max_x |-> 0, max_y |-> 0] ELSE
    LET xs == { pts[j][1] : j \in 1..Len(pts) }
        ys == { pts[j][2] : j \in 1..Len(pts) }
    IN  [min_x |-> (CHOOSE x \in xs : \A o \in xs : x <= o) - pad,
         min_y |-> (CHOOSE y \in ys : \A o \in ys : y <= o) - pad,
         max_x |-> (CHOOSE x \in xs : \A o \in xs : x >= o) + pad,
         max_y |-> (CHOOSE y \in ys : \A o \in ys : y >= o) + pad]

\* boundaries with fewer than 3 points, which the hatcher rejects
ShortBoundaries == { <<p, q>> : p \in {<<0, 0>>}, q \in {<<GridMax, GridMax>>} }

\* The rectangle handed to the hatcher is the section's global bounding box:
\* the boundary's own box, or a wider one when the section has other wires.
HatchRects(b) == { BoundsOf(b, 0), BoundsOf(b \o << <<GridMax + 1, 3>> >>, 0) }

HatchInputs ==
    UNION { { [boundary |-> b, angle_deg |-> a, spacing |-> d, rect |-> r] :
                a \in HatchAngles, d \in 1..MaxSpacing, r \in HatchRects(b) } :
            b \in SimplePolygons }
    \cup
    { [boundary |-> b, angle_deg |-> a, spacing |-> d, rect |-> BoundsOf(b, 0)] :
        b \in ShortBoundaries \cup {<<>>} \cup { <<<<0, 0>>, <<GridMax, 0>>, <<0, 2>>>> },
        a \in HatchAngles, d \in -1..1 }

HatchIdle ==
    /\ hatch_in = [boundary |-> <<>>, angle_deg |-> CHOOSE a \in HatchAngles : a.deg = "0",
                   spacing |-> 0, rect |-> [min_x |-> 0, min_y |-> 0, max_x |-> 0, max_y |-> 0]]
    /\ hpc = "idle"
    /\ hi = 0
    /\ num_lines = 0
    /\ intersections = <<>>
    /\ line_base = 0
    /\ hatch_lines = <<>>

CallIdle ==
    /\ fn = "none"
    /\ cpc = "idle"
    /\ args = [shape |-> "null"]
    /\ result = [lines |-> <<>>]
    /\ locals = [totalExtracted |-> 0]
    /\ group = 0
    /\ examined = 0
    /\ box3d = NoBox
    /\ caught = "none"
    /\ raised_at = "none"

AreaIdle ==
    /\ area_pts = <<>>
    /\ area_op = "none"
    /\ area_val = RZero
    /\ area_prev = RZero
    /\ area_region = [area |-> RZero, is_outer |-> FALSE]

InitHatch ==
    /\ AreaIdle
    /\ CallIdle
    /\ hatch_in \in HatchInputs
    /\ hpc = "entry"
    /\ hi = 0
    /\ num_lines = 0
    /\ intersections = <<>>
    /\ line_base = 0
    /\ hatch_lines = <<>>

\* if (boundary.size() < 3 || spacing <= 0) return;
HatchReject ==
    /\ hpc = "entry"
    /\ (Len(hatch_in.boundary) < 3 \/ hatch_in.spacing <= 0)
    /\ hpc' = "done"
    /\ UNCHANGED <<hatch_in, hi, num_lines, intersections, line_base, hatch_lines>>
    /\ UNCHANGED <<areaVars, callVars>>

\* the set-up of the loop: num_lines, i = -num_lines
HatchEntry ==
    /\ hpc = "entry"
    /\ ~ (Len(hatch_in.boundary) < 3 \/ hatch_in.spacing <= 0)
    /\ num_lines' = HatchNumLines(hatch_in.rect, hatch_in.spacing)
    /\ hi' = - num_lines'
    /\ hpc' = "loop"
    /\ UNCHANGED <<hatch_in, intersections, line_base, hatch_lines>>
    /\ UNCHANGED <<areaVars, callVars>>

\* one iteration of for (int i = -num_lines; i <= num_lines; i++)
HatchLine ==
    /\ hpc = "loop"
    /\ hi <= num_lines
    /\ LET h == HatchOrigin(hatch_in.rect, hatch_in.angle_deg, hatch_in.spacing, hi)
           ts == LineIntersections(hatch_in.boundary, h, hatch_in.angle_deg)
       IN  /\ intersections' = ts
           /\ line_base' = Len(hatch_lines)
           /\ hatch_lines' = hatch_lines \o LineSegments(ts, h, hatch_in.angle_deg)
    /\ hi' = hi + 1
    /\ UNCHANGED <<hatch_in, hpc, num_lines>>
    /\ UNCHANGED <<areaVars, callVars>>

\* the loop ends and the function returns
HatchReturn ==
    /\ hpc = "loop"
    /\ hi > num_lines
    /\ hpc' = "done"
    /\ UNCHANGED <<hatch_in, hi, num_lines, intersections, line_base, hatch_lines>>
    /\ UNCHANGED <<areaVars, callVars>>

NextHatch == HatchReject \/ HatchEntry \/ HatchLine \/ HatchReturn

SpecHatch == InitHatch /\ [][NextHatch]_vars

\* ------------------------------------------------------------------------
\* polygon_signed_area applied to a point list, to its cyclic rotations and
\* to its reversal
\* ------------------------------------------------------------------------
AreaInputs == UNION { [1..n -> GridPoints] : n \in {3, 4} }

RotateLeft(pts) == Tail(pts) \o <<Head(pts)>>
Reverse(pts) == [j \in 1..Len(pts) |-> pts[Len(pts) + 1 - j]]

InitArea ==
    /\ HatchIdle
    /\ CallIdle
    /\ area_pts \in AreaInputs
    /\ area_op = "none"
    /\ area_val = RZero
    /\ area_prev = RZero
    /\ area_region = [area |-> RZero, is_outer |-> FALSE]

\* the call on the list as given
AreaCall ==
    /\ area_op = "none"
    /\ area_op' = "given"
    /\ area_val' = polygon_signed_area(area_pts)
    /\ area_region' = HatchRegionOf(area_pts)
    /\ UNCHANGED <<area_pts, area_prev>>
    /\ UNCHANGED <<hatchVars, callVars>>

\* the call on the list rotated by one position
AreaRotate ==
    /\ area_op # "none"
    /\ area_pts' = RotateLeft(area_pts)
    /\ area_op' = "rotate"
    /\ area_prev' = area_val
    /\ area_val' = polygon_signed_area(area_pts')
    /\ area_region' = HatchRegionOf(area_pts')
    /\ UNCHANGED <<hatchVars, callVars>>

\* the call on the reversed list
AreaReverse ==
    /\ area_op # "none"
    /\ area_pts' = Reverse(area_pts)
    /\ area_op' = "reverse"
    /\ area_prev' = area_val
    /\ area_val' = polygon_signed_area(area_pts')
    /\ area_region' = HatchRegionOf(area_pts')
    /\ UNCHANGED <<hatchVars, callVars>>

NextArea == AreaCall \/ AreaRotate \/ AreaReverse

SpecArea == InitArea /\ [][NextArea]_vars

\* ------------------------------------------------------------------------
\* compute_hlr_projection
\* ------------------------------------------------------------------------
HlrArgs ==
    { [shape |-> sh, dir |-> d, up |-> u, scale |-> sc] :
        sh \in Shapes, d \in ViewDirs, u \in UpDirs, sc \in Scales }

HlrResult0 ==
    [lines |-> <<>>, min_x |-> DBL_MAX, min_y |-> DBL_MAX,
     max_x |-> -DBL_MAX, max_y |-> -DBL_MAX]

CallStart ==
    /\ cpc = "entry"
    /\ group = 0
    /\ examined = 0
    /\ box3d = NoBox
    /\ caught = "none"
    /\ raised_at = "none"

InitHlr ==
    /\ fn = "hlr"
    /\ args \in HlrArgs
    /\ result = HlrResult0
    /\ locals = [totalExtracted |-> 0]
    /\ CallStart

\* An exception of the given kind raised at the current position: the first
\* matching catch clause runs its handler and the function returns result;
\* with no matching clause the exception leaves the function.
Raise(kind, res) ==
    LET n == MatchingClause(fn, kind) IN
    /\ caught' = kind
    /\ raised_at' = cpc
    /\ cpc' = IF n = 0 THEN "propagated" ELSE "returned"
    /\ result' = IF n # 0 /\ CatchClauses(fn)[n].zero THEN ZeroBBox(res) ELSE res

\* the early returns: null shape, no faces and no edges, zero view direction
HlrValidate ==
    /\ fn = "hlr" /\ cpc = "entry"
    /\ cpc' = IF \/ args.shape = "null"
                 \/ args.shape = "empty"
                 \/ IsZeroLength(args.dir)
              THEN "returned" ELSE "basis"
    /\ UNCHANGED <<fn, args, result, locals, group, examined, box3d, caught, raised_at>>
    /\ UNCHANGED <<hatchVars, areaVars>>

\* gp_Dir viewDir, gp_Dir upDir, xAxis (with its fallback), gp_Ax2 viewAxis
BasisRaises(up, dir) ==
    \/ GpDirRaises(up)
    \/ CrossedRaises(dir, BasisXAxis(up, dir))

HlrBasis ==
    /\ fn \in {"hlr", "hlr_v2"} /\ cpc = "basis"
    /\ IF BasisRaises(args.up, args.dir)
       THEN Raise("Standard_Failure", result)
       ELSE /\ cpc' = "classify"
            /\ UNCHANGED <<result, caught, raised_at>>
    /\ UNCHANGED <<fn, args, locals, group, examined, box3d>>
    /\ UNCHANGED <<hatchVars, areaVars>>

\* HLRBRep_Algo: Add, Projector, Update, Hide; HLRBRep_HLRToShape
HlrClassify ==
    /\ fn \in {"hlr", "hlr_v2"} /\ cpc = "classify"
    /\ \/ /\ cpc' = "extract"
          /\ UNCHANGED <<result, caught, raised_at>>
       \/ \E kind \in ExcKinds : Raise(kind, result)
    /\ UNCHANGED <<fn, args, locals, group, examined, box3d>>
    /\ UNCHANGED <<hatchVars, areaVars>>

\* one of the six extractor.XCompound() + extract_2d_edges pairs; the kernel
\* hands out the edges, or raises after some of them were processed
HlrExtractGroup ==
    /\ fn = "hlr" /\ cpc = "extract" /\ group < 6
    /\ \E edges \in EdgeLists(MaxEdges - examined) :
          /\ examined' = examined + Len(edges)
          /\ LET res == extract_2d_edges(edges, group, result) IN
             \/ /\ result' = res
                /\ locals' = [totalExtracted |->
                                 locals.totalExtracted + (Len(res.lines) - Len(result.lines))]
                /\ group' = group + 1
                /\ UNCHANGED <<cpc, caught, raised_at>>
             \/ /\ \E kind \in ExcKinds : Raise(kind, res)
                /\ UNCHANGED <<locals, group>>
    /\ UNCHANGED <<fn, args, box3d>>
    /\ UNCHANGED <<hatchVars, areaVars>>

\* if (result.lines.empty()) extract_bbox_edges(...)
HlrFallback ==
    /\ fn = "hlr" /\ cpc = "extract" /\ group = 6
    /\ IF result.lines = <<>>
       THEN \/ \E box \in Boxes3D :
                 /\ box3d' = box
                 /\ result' = extract_bbox_edges(box, result, args.dir, args.scale)
                 /\ cpc' = "scale"
                 /\ UNCHANGED <<caught, raised_at>>
            \/ /\ \E kind \in ExcKinds : Raise(kind, result)
               /\ UNCHANGED box3d
       ELSE /\ cpc' = "scale"
            /\ UNCHANGED <<result, box3d, caught, raised_at>>
    /\ UNCHANGED <<fn, args, locals, group, examined>>
    /\ UNCHANGED <<hatchVars, areaVars>>

\* if (scale != 1.0 && !result.lines.empty() && totalExtracted > 0): every
\* line and the bbox are multiplied by scale
ApplyScaleHlr_Unguarded(res, scale, extracted) ==
    IF scale # 1 /\ res.lines # <<>>
    THEN ScaleBBox([res EXCEPT !.lines = [m \in 1..Len(@) |-> ScaleLine(@[m], scale)]],
                   scale)
    ELSE res

ApplyScaleHlr(res, scale, extracted) ==
    IF scale # 1 /\ res.lines # <<>> /\ extracted > 0
    THEN ScaleBBox([res EXCEPT !.lines = [m \in 1..Len(@) |-> ScaleLine(@[m], scale)]],
                   scale)
    ELSE res

HlrScale ==
    /\ fn = "hlr" /\ cpc = "scale"
    /\ result' = ApplyScaleHlr(result, args.scale, locals.totalExtracted)
    /\ cpc' = "empty"
    /\ UNCHANGED <<fn, args, locals, group, examined, box3d, caught, raised_at>>
    /\ UNCHANGED <<hatchVars, areaVars>>

\* if (result.lines.empty()) the bbox is zeroed; return result
HlrEmptyReset ==
    /\ fn = "hlr" /\ cpc = "empty"
    /\ result' = IF result.lines = <<>> THEN ZeroBBox(result) ELSE result
    /\ cpc' = "returned"
    /\ UNCHANGED <<fn, args, locals, group, examined, box3d, caught, raised_at>>
    /\ UNCHANGED <<hatchVars, areaVars>>

\* ------------------------------------------------------------------------
\* compute_hlr_projection_v2
\* ------------------------------------------------------------------------
HlrV2Result0 ==
    [curves |-> <<>>, polylines |-> <<>>,
     min_x |-> DBL_MAX, min_y |-> DBL_MAX, max_x |-> -DBL_MAX, max_y |-> -DBL_MAX,
     num_edges |-> 0, num_lines |-> 0, num_arcs |-> 0, num_polylines |-> 0]

InitHlrV2 ==
    /\ fn = "hlr_v2"
    /\ args \in { a \in HlrArgs : a.shape # "empty" }
    /\ result = HlrV2Result0
    /\ locals = [numLines |-> 0, numArcs |-> 0, numPolylines |-> 0]
    /\ CallStart

\* the early returns: null shape, zero view direction
HlrV2Validate ==
    /\ fn = "hlr_v2" /\ cpc = "entry"
    /\ cpc' = IF args.shape = "null" \/ IsZeroLength(args.dir)
              THEN "returned" ELSE "basis"
    /\ UNCHANGED <<fn, args, result, locals, group, examined, box3d, caught, raised_at>>
    /\ UNCHANGED <<hatchVars, areaVars>>

\* one of the six extractor.XCompound() + extract_2d_curves pairs
HlrV2ExtractGroup ==
    /\ fn = "hlr_v2" /\ cpc = "extract" /\ group < 6
    /\ \E edges \in EdgeLists(MaxEdges - examined) :
          /\ examined' = examined + Len(edges)
          /\ LET st == extract_2d_curves(edges, group,
                           [res |-> result, cnt |-> locals, extracted |-> 0])
             IN
             \/ /\ result' = [st.res EXCEPT !.num_edges = @ + st.extracted]
                /\ locals' = st.cnt
                /\ group' = group + 1
                /\ UNCHANGED <<cpc, caught, raised_at>>
             \/ /\ \E kind \in ExcKinds : Raise(kind, st.res)
                /\ locals' = st.cnt
                /\ UNCHANGED group
    /\ UNCHANGED <<fn, args, box3d>>
    /\ UNCHANGED <<hatchVars, areaVars>>

\* result.num_lines = numLines, ...; if (scale != 1.0) ...
HlrV2Scale ==
    /\ fn = "hlr_v2" /\ cpc = "extract" /\ group = 6
    /\ result' = ApplyScaleV2([result EXCEPT !.num_lines = locals.numLines,
                                             !.num_arcs = locals.numArcs,
                                             !.num_polylines = locals.numPolylines],
                              args.scale)
    /\ cpc' = "empty"
    /\ UNCHANGED <<fn, args, locals, group, examined, box3d, caught, raised_at>>
    /\ UNCHANGED <<hatchVars, areaVars>>

\* if (result.curves.empty() && result.polylines.empty()) the bbox is zeroed
HlrV2EmptyReset ==
    /\ fn = "hlr_v2" /\ cpc = "empty"
    /\ result' = IF result.curves = <<>> /\ result.polylines = <<>>
                 THEN ZeroBBox(result) ELSE result
    /\ cpc' = "returned"
    /\ UNCHANGED <<fn, args, locals, group, examined, box3d, caught, raised_at>>
    /\ UNCHANGED <<hatchVars, areaVars>>

\* ------------------------------------------------------------------------
\* compute_section
\* ------------------------------------------------------------------------
SectionNormals == { <<0, 0, 0>>, <<0, 0, 1>>, <<0, 0, -1>>, <<1, 0, 0>>, <<0, 1, 0>> }
SectionUps == { <<0, 0, 0>>, <<0, 1, 0>>, <<0, 0, 1>>, <<1, 0, 0>> }
SectionOrigin == <<1, 0, 2>>

NullPtr == [ptr |-> "nullptr"]

InitSection ==
    /\ fn = "section"
    /\ args \in { [shape |-> sh, origin |-> SectionOrigin, normal |-> n] :
                    sh \in {"null", "solid"}, n \in SectionNormals }
    /\ result = [ptr |-> "unset"]
    /\ locals = [totalExtracted |-> 0]
    /\ CallStart

\* if (shape.is_null()) return nullptr; gp_Dir normal(...)
SectionValidate ==
    /\ fn = "section" /\ cpc = "entry"
    /\ IF args.shape = "null"
       THEN /\ cpc' = "returned"
            /\ result' = NullPtr
            /\ UNCHANGED <<caught, raised_at>>
       ELSE IF GpDirRaises(args.normal)
       THEN Raise("Standard_Failure", NullPtr)
       ELSE /\ cpc' = "build"
            /\ UNCHANGED <<result, caught, raised_at>>
    /\ UNCHANGED <<fn, args, locals, group, examined, box3d>>
    /\ UNCHANGED <<hatchVars, areaVars>>

\* section.Build(); if (!section.IsDone()) return nullptr; return the shape
SectionBuild ==
    /\ fn = "section" /\ cpc = "build"
    /\ \/ /\ \E done \in BOOLEAN :
               result' = IF done THEN [ptr |-> "shape"] ELSE NullPtr
          /\ cpc' = "returned"
          /\ UNCHANGED <<caught, raised_at>>
       \/ \E kind \in ExcKinds : Raise(kind, NullPtr)
    /\ UNCHANGED <<fn, args, locals, group, examined, box3d>>
    /\ UNCHANGED <<hatchVars, areaVars>>

\* ------------------------------------------------------------------------
\* compute_section_with_hatch
\* ------------------------------------------------------------------------
\* The wires of a section lie in the cutting plane: a wire is given by the
\* in-plane coordinates of its vertices and lifted to 3D points.
PlaneFrame(normal) ==
    IF normal[3] # 0 THEN << <<1, 0, 0>>, <<0, 1, 0>> >>
    ELSE IF normal[1] # 0 THEN << <<0, 1, 0>>, <<0, 0, 1>> >>
    ELSE << <<1, 0, 0>>, <<0, 0, 1>> >>

Lift(p, origin, normal) ==
    LET f == PlaneFrame(normal) IN
    << origin[1] + p[1] * f[1][1] + p[2] * f[2][1],
       origin[2] + p[1] * f[1][2] + p[2] * f[2][2],
       origin[3] + p[1] * f[1][3] + p[2] * f[2][3] >>

LiftWire(w, origin, normal) == [m \in 1..Len(w) |-> Lift(w[m], origin, normal)]

\* closed wires: a square, a triangle, and a wire of one (circular) edge
ClosedWirePool ==
    { << <<0, 0>>, <<2, 0>>, <<2, 2>>, <<0, 2>> >>,
      << <<0, 0>>, <<0, 2>>, <<1, 0>> >>,
      << <<3, 1>> >> }

\* open wires: a chain of two edges and a wire of one edge
OpenWirePool ==
    { << <<0, 0>>, <<1, 1>> >>,
      << <<-1, 3>> >> }

WireLists(pool, n) == UNION { [1..k -> pool] : k \in 0..n }

\* project_point_to_plane
project_point_to_plane(pt3d, origin, xAxis, yAxis) ==
    LET v == << pt3d[1] - origin[1], pt3d[2] - origin[2], pt3d[3] - origin[3] >>
    IN  << Dot3(v, xAxis), Dot3(v, yAxis) >>

ProjectWire(wire, origin, xAxis, yAxis) ==
    [m \in 1..Len(wire) |-> project_point_to_plane(wire[m], origin, xAxis, yAxis)]

SectionHatchResult0 ==
    [curves |-> <<>>, regions |-> <<>>,
     min_x |-> DBL_MAX, min_y |-> DBL_MAX, max_x |-> -DBL_MAX, max_y |-> -DBL_MAX,
     num_regions |-> 0, num_hatch_lines |-> 0]

SectionHatchAngles == { "0", "53.13" }
SectionHatchSpacings == { 0, 1, 2 }

SectionHatchArgs ==
    { [shape |-> sh, origin |-> SectionOrigin, normal |-> n, up |-> u,
       hatch_angle |-> a, hatch_spacing |-> d] :
        sh \in {"null", "solid"}, n \in SectionNormals, u \in SectionUps,
        a \in { h \in HatchAngles : h.deg \in SectionHatchAngles },
        d \in SectionHatchSpacings }

SectionHatchLocals0 ==
    [xAxis |-> Zero3, yAxis |-> Zero3, closedCount |-> 0,
     closedWires |-> <<>>, openWires |-> <<>>]

InitSectionHatch ==
    /\ fn = "section_hatch"
    /\ args \in SectionHatchArgs
    /\ result = SectionHatchResult0
    /\ locals = SectionHatchLocals0
    /\ CallStart

\* if (shape.is_null()) return result; gp_Dir normal(...)
SectionHatchValidate ==
    /\ fn = "section_hatch" /\ cpc = "entry"
    /\ IF args.shape = "null"
       THEN /\ cpc' = "returned"
            /\ UNCHANGED <<result, caught, raised_at>>
       ELSE IF GpDirRaises(args.normal)
       THEN Raise("Standard_Failure", result)
       ELSE /\ cpc' = "build"
            /\ UNCHANGED <<result, caught, raised_at>>
    /\ UNCHANGED <<fn, args, locals, group, examined, box3d>>
    /\ UNCHANGED <<hatchVars, areaVars>>

\* section.Build(); if (!section.IsDone()) return result;
SectionHatchBuild ==
    /\ fn = "section_hatch" /\ cpc = "build"
    /\ \/ /\ \E done \in BOOLEAN : cpc' = IF done THEN "basis" ELSE "returned"
          /\ UNCHANGED <<result, caught, raised_at>>
       \/ \E kind \in ExcKinds : Raise(kind, result)
    /\ UNCHANGED <<fn, args, locals, group, examined, box3d>>
    /\ UNCHANGED <<hatchVars, areaVars>>

\* gp_Dir upDir; xAxis = upDir.Crossed(normal) or (1, 0, 0);
\* yAxis = normal.Crossed(xAxis)
SectionHatchBasis ==
    /\ fn = "section_hatch" /\ cpc = "basis"
    /\ IF BasisRaises(args.up, args.normal)
       THEN /\ Raise("Standard_Failure", result)
            /\ UNCHANGED locals
       ELSE /\ locals' = [locals EXCEPT
                            !.xAxis = BasisXAxis(args.up, args.normal),
                            !.yAxis = Cross3(args.normal, BasisXAxis(args.up, args.normal))]
            /\ cpc' = "freebounds"
            /\ UNCHANGED <<result, caught, raised_at>>
    /\ UNCHANGED <<fn, args, group, examined, box3d>>
    /\ UNCHANGED <<hatchVars, areaVars>>

\* ShapeAnalysis_FreeBounds: the closed and the open wires of the section
SectionHatchFreeBounds ==
    /\ fn = "section_hatch" /\ cpc = "freebounds"
    /\ \/ /\ \E cw \in WireLists(ClosedWirePool, MaxWires) :
             \E ow \in WireLists(OpenWirePool, MaxWires - Len(cw)) :
                locals' = [locals EXCEPT
                   !.closedWires = [m \in 1..Len(cw) |->
                                      LiftWire(cw[m], args.origin, args.normal)],
                   !.openWires = [m \in 1..Len(ow) |->
                                      LiftWire(ow[m], args.origin, args.normal)]]
          /\ cpc' = "wires"
          /\ UNCHANGED <<result, caught, raised_at>>
       \/ /\ \E kind \in ExcKinds : Raise(kind, result)
          /\ UNCHANGED locals
    /\ UNCHANGED <<fn, args, group, examined, box3d>>
    /\ UNCHANGED <<hatchVars, areaVars>>

\* the region of a closed wire hatched inside the bbox accumulated so far
ClosedRegion(boundary, res) ==
    LET r == HatchRegionOf(boundary) IN
    [area |-> r.area, is_outer |-> r.is_outer, boundary |-> boundary,
     hatch_lines |-> generate_hatch_lines_for_region(boundary, args.hatch_angle,
                        args.hatch_spacing,
                        [min_x |-> res.min_x, min_y |-> res.min_y,
                         max_x |-> res.max_x, max_y |-> res.max_y])]

ProcessClosedWire_Uncounted(wire, res) ==
    LET boundary == ProjectWire(wire, args.origin, locals.xAxis, locals.yAxis)
        grown == GrowBBoxAll(res, boundary)
    IN  IF Len(boundary) >= 3
        THEN LET region == ClosedRegion(boundary, grown) IN
             [grown EXCEPT
                !.curves = Append(@, [is_closed |-> TRUE, points |-> boundary]),
                !.regions = Append(@, region)]
        ELSE grown

ProcessClosedWire_AnySize(wire, res) ==
    LET boundary == ProjectWire(wire, args.origin, locals.xAxis, locals.yAxis)
        grown == GrowBBoxAll(res, boundary)
    IN  LET region == ClosedRegion(boundary, grown) IN
        [grown EXCEPT
           !.curves = Append(@, [is_closed |-> TRUE, points |-> boundary]),
           !.num_hatch_lines = @ + Len(region.hatch_lines),
           !.regions = Append(@, region)]

\* the body of the closed-wire loop for one wire
ProcessClosedWire(wire, res) ==
    LET boundary == ProjectWire(wire, args.origin, locals.xAxis, locals.yAxis)
        grown == GrowBBoxAll(res, boundary)
    IN  IF Len(boundary) >= 3
        THEN LET region == ClosedRegion(boundary, grown) IN
             [grown EXCEPT
                !.curves = Append(@, [is_closed |-> TRUE, points |-> boundary]),
                !.num_hatch_lines = @ + Len(region.hatch_lines),
                !.regions = Append(@, region)]
        ELSE grown

\* one iteration of the loop over the closed wires
SectionHatchClosedWire ==
    /\ fn = "section_hatch" /\ cpc = "wires"
    /\ locals.closedWires # <<>>
    /\ locals' = [locals EXCEPT !.closedCount = @ + 1, !.closedWires = Tail(@)]
    /\ \/ /\ result' = ProcessClosedWire(Head(locals.closedWires), result)
          /\ UNCHANGED <<cpc, caught, raised_at>>
       \/ \E kind \in ExcKinds : Raise(kind, result)
    /\ UNCHANGED <<fn, args, group, examined, box3d>>
    /\ UNCHANGED <<hatchVars, areaVars>>

\* the body of the open-wire loop for one wire
ProcessOpenWire(wire, res) ==
    LET points == ProjectWire(wire, args.origin, locals.xAxis, locals.yAxis)
        grown == GrowBBoxAll(res, points)
    IN  IF Len(points) >= 2
        THEN [grown EXCEPT !.curves = Append(@, [is_closed |-> FALSE, points |-> points])]
        ELSE grown

\* one iteration of the loop over the open wires
SectionHatchOpenWire ==
    /\ fn = "section_hatch" /\ cpc = "wires"
    /\ locals.closedWires = <<>> /\ locals.openWires # <<>>
    /\ locals' = [locals EXCEPT !.openWires = Tail(@)]
    /\ \/ /\ result' = ProcessOpenWire(Head(locals.openWires), result)
          /\ UNCHANGED <<cpc, caught, raised_at>>
       \/ \E kind \in ExcKinds : Raise(kind, result)
    /\ UNCHANGED <<fn, args, group, examined, box3d>>
    /\ UNCHANGED <<hatchVars, areaVars>>

\* result.num_regions = closedCount; the bbox is zeroed if there is no curve
SectionHatchFinish ==
    /\ fn = "section_hatch" /\ cpc = "wires"
    /\ locals.closedWires = <<>> /\ locals.openWires = <<>>
    /\ result' = LET res == [result EXCEPT !.num_regions = locals.closedCount]
                 IN  IF res.curves = <<>> THEN ZeroBBox(res) ELSE res
    /\ cpc' = "returned"
    /\ UNCHANGED <<fn, args, locals, group, examined, box3d, caught, raised_at>>
    /\ UNCHANGED <<hatchVars, areaVars>>

Init == HatchIdle /\ AreaIdle /\ (InitHlr \/ InitHlrV2 \/ InitSection \/ InitSectionHatch)

Next ==
    \/ HlrValidate \/ HlrBasis \/ HlrClassify \/ HlrExtractGroup
    \/ HlrFallback \/ HlrScale \/ HlrEmptyReset
    \/ HlrV2Validate \/ HlrV2ExtractGroup \/ HlrV2Scale \/ HlrV2EmptyReset
    \/ SectionValidate \/ SectionBuild
    \/ SectionHatchValidate \/ SectionHatchBuild \/ SectionHatchBasis
    \/ SectionHatchFreeBounds \/ SectionHatchClosedWire \/ SectionHatchOpenWire
    \/ SectionHatchFinish

Spec == Init /\ [][Next]_vars

\* ------------------------------------------------------------------------
\* Geometry used to state the hatching claims
\* ------------------------------------------------------------------------
\* the point (x, y), with rational coordinates, lies on the closed edge a-b
OnEdge(x, y, a, b) ==
    LET ax == RInt(a[1])  ay == RInt(a[2])  bx == RInt(b[1])  by == RInt(b[2])
    IN  /\ RSub(RMul(RSub(bx, ax), RSub(y, ay)), RMul(RSub(by, ay), RSub(x, ax))) = RZero
        /\ RLeq(RInt(Min2(a[1], b[1])), x) /\ RLeq(x, RInt(Max2(a[1], b[1])))
        /\ RLeq(RInt(Min2(a[2], b[2])), y) /\ RLeq(y, RInt(Max2(a[2], b[2])))

\* the ray from (x, y) towards +x crosses the edge a-b (half-open rule)
RayCrosses(x, y, a, b) ==
    LET ax == RInt(a[1])  ay == RInt(a[2])  bx == RInt(b[1])  by == RInt(b[2])
    IN  /\ RLess(y, ay) # RLess(y, by)
        /\ RLess(x, RAdd(ax, RDiv(RMul(RSub(y, ay), RSub(bx, ax)), RSub(by, ay))))

\* point-in-polygon test: strictly inside, the boundary excluded
StrictlyInside(x, y, poly) ==
    LET n == Len(poly) IN
    /\ \A j \in 1..n : ~ OnEdge(x, y, poly[j], poly[Succ(j, n)])
    /\ Cardinality({ j \in 1..n : RayCrosses(x, y, poly[j], poly[Succ(j, n)]) }) % 2 = 1

RHalf(a) == RMul(a, Rat(1, 2))

MidpointInside(seg, poly) ==
    StrictlyInside(RHalf(RAdd(seg.start_x, seg.end_x)),
                   RHalf(RAdd(seg.start_y, seg.end_y)), poly)

\* the hatch line processed by the last HatchLine step
LastOrigin == HatchOrigin(hatch_in.rect, hatch_in.angle_deg, hatch_in.spacing, hi - 1)

\* the segments pushed for the last hatch line
LastSegments == SubSeq(hatch_lines, line_base + 1, Len(hatch_lines))

\* the parameter of the point (x, y) along the last hatch line
ParamOnLast(x, y) ==
    RAdd(RMul(RSub(x, LastOrigin.hx), cos_a(hatch_in.angle_deg)),
         RMul(RSub(y, LastOrigin.hy), sin_a(hatch_in.angle_deg)))

\* the point of the last hatch line at parameter t is strictly inside
ParamInside(t) ==
    StrictlyInside(RAdd(LastOrigin.hx, RMul(t, cos_a(hatch_in.angle_deg))),
                   RAdd(LastOrigin.hy, RMul(t, sin_a(hatch_in.angle_deg))),
                   hatch_in.boundary)

\* the open span (a, b) of the last hatch line is covered by one pushed segment
SpanCovered(a, b) ==
    \E m \in 1..Len(LastSegments) :
        LET sg == LastSegments[m] IN
        /\ RLeq(ParamOnLast(sg.start_x, sg.start_y), a)
        /\ RLeq(b, ParamOnLast(sg.end_x, sg.end_y))

LineProcessed == hpc = "loop" /\ hi > - num_lines

\* C1: every returned segment of a simple polygon has its midpoint strictly
\* inside the polygon, also on a hatch line through a vertex or along an edge.
C1_MidpointsInside ==
    IsSimplePolygon(hatch_in.boundary) =>
        \A m \in 1..Len(hatch_lines) : MidpointInside(hatch_lines[m], hatch_in.boundary)

\* C2: on every hatch line of a simple polygon the pushed segments are exactly
\* the filled spans: between two consecutive crossing points (further apart
\* than 1e-6) the line is inside the polygon exactly when a segment covers it.
C2_ExactlyFilledSpans ==
    (LineProcessed /\ IsSimplePolygon(hatch_in.boundary)) =>
        \A j \in 1..(Len(intersections) - 1) :
            LET a == intersections[j]
                b == intersections[j + 1]
            IN  LongEnough(a, b) =>
                    (ParamInside(RHalf(RAdd(a, b))) <=> SpanCovered(a, b))

\* C3: the number of crossings collected for a hatch line of a simple polygon
\* is even, for every offset index i.
C3_EvenCrossings ==
    (LineProcessed /\ IsSimplePolygon(hatch_in.boundary)) =>
        Len(intersections) % 2 = 0

UnitSquare == << <<0, 0>>, <<1, 0>>, <<1, 1>>, <<0, 1>> >>

\* C4: polygon_signed_area is the same for every cyclic rotation of the point
\* list and negated for the reversed list; the unit square yields 1, and the
\* region built from it has area 1 and is_outer = TRUE.
C4_SignedArea ==
    /\ area_op = "rotate" => area_val = area_prev
    /\ area_op = "reverse" => area_val = RNeg(area_prev)
    /\ (area_op # "none" /\ area_pts = UnitSquare) =>
          /\ area_val = ROne
          /\ area_region = [area |-> ROne, is_outer |-> TRUE]

\* the unit square reached by rotating (1,0),(1,1),(0,1),(0,0) three times
C4_Witness ==
    /\ area_op = "rotate"
    /\ area_pts = UnitSquare
    /\ area_val = ROne
    /\ area_region.is_outer


\* ------------------------------------------------------------------------
\* Vocabulary of the claims about the projection and section calls
\* ------------------------------------------------------------------------
Returned(f) == fn = f /\ cpc = "returned"

BBoxOf(res) ==
    [min_x |-> res.min_x, min_y |-> res.min_y, max_x |-> res.max_x, max_y |-> res.max_y]

ZeroRect == [min_x |-> 0, min_y |-> 0, max_x |-> 0, max_y |-> 0]

\* the 2D points that bound the primitives of a result
LinePoints(l) == { <<l.start_x, l.start_y>>, <<l.end_x, l.end_y>> }

CurvePoints(c) ==
    { <<c.start_x, c.start_y>>, <<c.end_x, c.end_y>> }
    \cup (IF c.curve_type \in {1, 2, 3}
          THEN { <<c.center_x - c.radius, c.center_y - c.radius>>,
                 <<c.center_x + c.radius, c.center_y + c.radius>> }
          ELSE {})

PrimitivePoints(res) ==
    IF fn = "hlr"
    THEN UNION { LinePoints(res.lines[m]) : m \in 1..Len(res.lines) }
    ELSE UNION { CurvePoints(res.curves[m]) : m \in 1..Len(res.curves) }
         \cup UNION { { res.polylines[m].points[q] : q \in 1..Len(res.polylines[m].points) } :
                      m \in 1..Len(res.polylines) }

NumPrimitives(res) ==
    CASE fn = "hlr" -> Len(res.lines)
      [] fn = "hlr_v2" -> Len(res.curves) + Len(res.polylines)
      [] fn = "section_hatch" -> Len(res.curves) + Len(res.regions)
      [] OTHER -> 0

ExtentOf(points) ==
    [min_x |-> CHOOSE x \in { q[1] : q \in points } : \A q \in points : x <= q[1],
     min_y |-> CHOOSE y \in { q[2] : q \in points } : \A q \in points : y <= q[2],
     max_x |-> CHOOSE x \in { q[1] : q \in points } : \A q \in points : x >= q[1],
     max_y |-> CHOOSE y \in { q[2] : q \in points } : \A q \in points : y >= q[2]]

\* the classifier returned no edge in any of the six groups, the shape has
\* a bounding box, and the call returned without an exception
FallbackCase ==
    /\ Returned("hlr") /\ caught = "none"
    /\ group = 6 /\ examined = 0
    /\ ~ box3d.void

\* C5: when the classifier returns zero edges in all six groups for a valid
\* shape, compute_hlr_projection returns exactly 4 segments of type 4
\* (VisibleOutline) that form a closed rectangle (each segment ends where the
\* next starts, the last ends where the first starts) equal to the shape's
\* 3D bounding box projected on the selected plane and multiplied by scale,
\* and the returned bbox is that rectangle.
C5_FallbackRectangle ==
    FallbackCase =>
        LET p == ProjectedBox(box3d, args.dir, args.scale)
            l == result.lines
        IN  /\ Len(l) = 4
            /\ \A m \in 1..4 : l[m].line_type = 4
            /\ \A m \in 1..4 : <<l[m].end_x, l[m].end_y>>
                                 = <<l[Succ(m, 4)].start_x, l[Succ(m, 4)].start_y>>
            /\ { <<l[m].start_x, l[m].start_y>> : m \in 1..4 }
                 = { <<p[1], p[2]>>, <<p[3], p[2]>>, <<p[3], p[4]>>, <<p[1], p[4]>> }
            /\ \A m \in 1..4 : l[m].start_x = l[m].end_x \/ l[m].start_y = l[m].end_y
            /\ BBoxOf(result) = [min_x |-> p[1], min_y |-> p[2],
                                 max_x |-> p[3], max_y |-> p[4]]

\* the fallback of a box of non-zero size on the chosen plane, scaled by 2
C5_Witness ==
    /\ FallbackCase
    /\ args.scale = 2
    /\ args.dir = <<0, -1, 0>>
    /\ box3d = Box3D(FALSE, -1, -2, -3, 1, 2, 3)
    /\ BBoxOf(result) = [min_x |-> -2, min_y |-> -6, max_x |-> 2, max_y |-> 6]

\* C6: whenever compute_hlr_projection or compute_hlr_projection_v2 returns
\* at least one primitive, the returned bbox equals the component-wise
\* min/max over the coordinates of exactly the returned primitives (circles
\* and ellipses as centre +/- radius), for every scale, also when an edge was
\* examined but not emitted or a later stage failed after an emission.
C6_BBoxIsExtent ==
    ((Returned("hlr") \/ Returned("hlr_v2")) /\ NumPrimitives(result) > 0)
        => BBoxOf(result) = ExtentOf(PrimitivePoints(result))

\* C7: whenever compute_hlr_projection, compute_hlr_projection_v2 or
\* compute_section_with_hatch returns a result with no primitives, the
\* returned bbox is (0,0)-(0,0) and never the initial sentinel extrema.
C7_EmptyHasZeroBBox ==
    ((Returned("hlr") \/ Returned("hlr_v2") \/ Returned("section_hatch"))
        /\ NumPrimitives(result) = 0)
        => BBoxOf(result) = ZeroRect

\* C8: if the visibility classification raises inside
\* compute_hlr_projection for a valid shape, the failure counts as zero
\* extracted edges and the bounding-box fallback is applied: the call
\* returns the 4 VisibleOutline edges, not an empty result.
C8_ClassifierFailureFallsBack ==
    (Returned("hlr") /\ raised_at = "classify")
        => /\ Len(result.lines) = 4
           /\ \A m \in 1..Len(result.lines) : result.lines[m].line_type = 4

\* the primitives of res, as one list
Primitives(res) ==
    CASE fn = "hlr" -> res.lines
      [] fn = "hlr_v2" -> res.curves \o res.polylines
      [] fn = "section_hatch" -> res.curves \o res.regions
      [] OTHER -> <<>>

\* an exception is raised while edge group k is extracted or wire k is
\* processed
StageRaises ==
    /\ cpc \in {"extract", "wires"}
    /\ caught = "none" /\ caught' # "none"

\* C9: a kernel error in one stage of an HLR or section call is local to
\* that stage: when the extraction of edge group k (or the processing of
\* wire k) raises, every primitive already emitted stays in the result and
\* the remaining groups or wires are still processed (the call goes on in
\* the same loop instead of returning).
C9_StageFailureIsLocal ==
    [][StageRaises =>
         /\ \A m \in 1..Len(Primitives(result)) :
               m <= Len(Primitives(result')) /\ Primitives(result')[m] = Primitives(result)[m]
         /\ cpc' = cpc]_vars

\* C10: compute_hlr_projection, compute_hlr_projection_v2, compute_section
\* and compute_section_with_hatch never propagate an exception to the
\* caller: whatever is raised at a kernel call point, the call returns a
\* result value.
C10_NeverPropagates == cpc # "propagated"

\* compute_section_with_hatch returned after the cross product of the
\* normal and the x axis raised
C10_Witness ==
    /\ Returned("section_hatch")
    /\ raised_at = "basis" /\ caught = "Standard_Failure"
    /\ ~ GpDirRaises(args.up)

\* the Line primitives of a projection result, as pairs of end points
LinePrimitives(res) ==
    IF fn = "hlr"
    THEN { << <<res.lines[m].start_x, res.lines[m].start_y>>,
              <<res.lines[m].end_x, res.lines[m].end_y>> >> : m \in 1..Len(res.lines) }
    ELSE { << <<res.curves[m].start_x, res.curves[m].start_y>>,
              <<res.curves[m].end_x, res.curves[m].end_y>> >> :
              m \in { q \in 1..Len(res.curves) : res.curves[q].curve_type = 0 } }

\* C11: every Line primitive in the result of compute_hlr_projection or
\* compute_hlr_projection_v2 has end points further apart than 1e-7 (here:
\* distinct end points), the four outline edges of the bounding-box fallback
\* included.
C11_NoDegenerateLine ==
    (Returned("hlr") \/ Returned("hlr_v2"))
        => \A l \in LinePrimitives(result) : l[1] # l[2]

\* the lines extract_2d_edges can emit for one edge of a group, unscaled
UnscaledEdgeLines ==
    UNION { { extract_2d_edges(<<e>>, t, HlrResult0).lines[m] :
                m \in 1..Len(extract_2d_edges(<<e>>, t, HlrResult0).lines) } :
            e \in EdgePool, t \in 0..5 }

\* the outline edges of the box found by the fallback, unscaled
UnscaledOutline ==
    { extract_bbox_edges(box3d, HlrResult0, args.dir, 1).lines[m] :
        m \in 1..Len(extract_bbox_edges(box3d, HlrResult0, args.dir, 1).lines) }

\* C12: in compute_hlr_projection the scale factor is applied exactly once
\* on every path: every returned line is an extracted edge, or an outline
\* edge of the fallback, with each coordinate multiplied by scale once;
\* none is scaled twice or left unscaled.
C12_ScaledOnce ==
    Returned("hlr") =>
        \A m \in 1..Len(result.lines) :
            result.lines[m] \in { ScaleLine(l, args.scale) :
                                    l \in UnscaledEdgeLines \cup UnscaledOutline }

\* ------------------------------------------------------------------------
\* The 2D frame of a view or of a section plane, as a function of the
\* direction d and the up vector u.  gp_Dir normalises its argument, so an
\* axis is kept as any non-zero vector of its direction.
\* ------------------------------------------------------------------------
FrameVectors ==
    { <<x, y, z>> : x \in -FrameMax..FrameMax, y \in -FrameMax..FrameMax,
                    z \in -FrameMax..FrameMax }

NoFrame == [raised |-> TRUE, x |-> Zero3, y |-> Zero3]

\* gp_Dir viewDir, upDir; xAxis = upDir.Crossed(viewDir) or (1, 0, 0);
\* gp_Ax2(origin, viewDir, xAxis) has the X direction
\* viewDir x (xAxis x viewDir) and the Y direction viewDir x X, and raises
\* when viewDir and xAxis are parallel
ViewFrame(d, u) ==
    IF GpDirRaises(d) \/ BasisRaises(u, d) THEN NoFrame
    ELSE LET x == Cross3(d, Cross3(BasisXAxis(u, d), d))
         IN  [raised |-> FALSE, x |-> x, y |-> Cross3(d, x)]

\* gp_Dir normal, upDir; xAxis = upDir.Crossed(normal) or (1, 0, 0);
\* yAxis = normal.Crossed(xAxis)
SectionFrame(d, u) ==
    IF GpDirRaises(d) \/ BasisRaises(u, d) THEN NoFrame
    ELSE [raised |-> FALSE, x |-> BasisXAxis(u, d), y |-> Cross3(d, BasisXAxis(u, d))]

InitFrame ==
    /\ HatchIdle /\ AreaIdle
    /\ fn \in {"view_frame", "section_frame"}
    /\ args \in { [dir |-> d, up |-> u] : d \in FrameVectors, u \in FrameVectors }
    /\ result = NoFrame
    /\ locals = [totalExtracted |-> 0]
    /\ CallStart

\* the frame of compute_hlr_projection and compute_hlr_projection_v2
BuildViewFrame ==
    /\ fn = "view_frame" /\ cpc = "entry"
    /\ result' = ViewFrame(args.dir, args.up)
    /\ cpc' = "returned"
    /\ UNCHANGED <<fn, args, locals, group, examined, box3d, caught, raised_at>>
    /\ UNCHANGED <<hatchVars, areaVars>>

\* the frame of compute_section_with_hatch
BuildSectionFrame ==
    /\ fn = "section_frame" /\ cpc = "entry"
    /\ result' = SectionFrame(args.dir, args.up)
    /\ cpc' = "returned"
    /\ UNCHANGED <<fn, args, locals, group, examined, box3d, caught, raised_at>>
    /\ UNCHANGED <<hatchVars, areaVars>>

NextFrame == BuildViewFrame \/ BuildSectionFrame

SpecFrame == InitFrame /\ [][NextFrame]_vars

\* the axes x, y and the direction d are non-zero and mutually orthogonal
Orthogonal(frame, d) ==
    /\ frame.x # Zero3 /\ frame.y # Zero3
    /\ Dot3(frame.x, d) = 0
    /\ Dot3(frame.y, d) = 0
    /\ Dot3(frame.x, frame.y) = 0

\* C13: for every non-zero direction d and every up vector u the 2D frame
\* built from (d, u) exists and has mutually orthogonal axes (x orthogonal
\* to d, y orthogonal to both), also when u is parallel to d and the x axis
\* falls back to (1,0,0), and also for d parallel to (1,0,0).
C13_FrameOrthogonal ==
    ((Returned("view_frame") \/ Returned("section_frame")) /\ ~ IsZeroLength(args.dir))
        => (~ result.raised /\ Orthogonal(result, args.dir))

\* the direction d of a call: the view direction or the plane normal
DirectionOf(a) == IF fn = "section_hatch" THEN a.normal ELSE a.dir

\* C14: the construction of the view basis fails (the call returns the
\* empty or error result instead of projecting) only if the direction d has
\* length < 1e-10; for every other d and every up vector u, the zero vector
\* and u parallel to d included, a basis is produced and the extraction
\* proceeds.
C14_BasisFailsOnlyForZeroDirection ==
    (fn \in {"hlr", "hlr_v2", "section_hatch"} /\ raised_at = "basis")
        => IsZeroLength(DirectionOf(args))

\* twice the signed area of a closed point list, edge by edge
RECURSIVE TwiceAreaOver(_, _)
TwiceAreaOver(pts, idx) ==
    IF idx = {} THEN 0
    ELSE LET j == CHOOSE q \in idx : TRUE
             k == Succ(j, Len(pts))
         IN  pts[j][1] * pts[k][2] - pts[k][1] * pts[j][2]
               + TwiceAreaOver(pts, idx \ {j})

TwiceArea(pts) == TwiceAreaOver(pts, 1..Len(pts))

\* the closed curves of a section result, in order
ClosedCurves(res) == SelectSeq(res.curves, LAMBDA c : c.is_closed)

\* every region is well formed and belongs to the closed curve of the same
\* rank; every kept curve is long enough
RegionsWellFormed(res) ==
    /\ Len(res.regions) = Len(ClosedCurves(res))
    /\ \A m \in 1..Len(res.regions) :
          LET g == res.regions[m] IN
          /\ Len(g.boundary) >= 3
          /\ g.boundary = ClosedCurves(res)[m].points
          /\ g.area = Rat(Abs(TwiceArea(g.boundary)), 2)
          /\ RLeq(RZero, g.area)
          /\ g.is_outer = (TwiceArea(g.boundary) > 0)
    /\ \A m \in 1..Len(res.curves) :
          Len(res.curves[m].points) >= (IF res.curves[m].is_closed THEN 3 ELSE 2)

\* what one wire adds to the result: a closed wire of fewer than 3 points
\* adds neither a curve nor a region, an open wire never adds a region or a
\* hatch segment and adds a curve only with 2 points or more
WireStepWellFormed ==
    /\ (SectionHatchClosedWire /\ Len(Head(locals.closedWires)) < 3)
          => (result'.curves = result.curves /\ result'.regions = result.regions)
    /\ SectionHatchOpenWire
          => /\ result'.regions = result.regions
             /\ result'.num_hatch_lines = result.num_hatch_lines
             /\ (Len(Head(locals.openWires)) < 2 => result'.curves = result.curves)
             /\ \A m \in 1..Len(result'.curves) :
                   m > Len(result.curves) => ~ result'.curves[m].is_closed

\* C15: every region returned by compute_section_with_hatch comes from a
\* closed wire with at least 3 projected points: its boundary has 3 points
\* or more and equals the points of its closed curve, its area is the
\* absolute shoelace area, and is_outer is true exactly when the signed area
\* is positive; a closed wire with fewer than 3 points yields neither a
\* curve nor a region, and an open wire is kept as a curve only with 2
\* points or more and never yields a region or hatch segments.
C15_RegionsFromClosedWires ==
    /\ [](fn = "section_hatch" => RegionsWellFormed(result))
    /\ [][WireStepWellFormed]_vars

\* a section of two closed wires, one dropped for having fewer than 3
\* points and one kept as an outer region
C15_Witness ==
    /\ Returned("section_hatch") /\ caught = "none"
    /\ locals.closedCount = 2
    /\ Len(result.regions) = 1
    /\ result.regions[1].is_outer
    /\ RLess(RZero, result.regions[1].area)

\* the points of the curves kept in a section result
CurvePointsOf(res) ==
    UNION { { res.curves[m].points[q] : q \in 1..Len(res.curves[m].points) } :
            m \in 1..Len(res.curves) }

\* C16: the bbox returned by compute_section_with_hatch equals the
\* component-wise min/max over the points of the curves it kept, or
\* (0,0)-(0,0) when no curve was kept; points of wires that were projected
\* but not kept do not enlarge it.
C16_SectionBBoxIsExtent ==
    Returned("section_hatch") =>
        BBoxOf(result) = IF result.curves = <<>> THEN ZeroRect
                         ELSE ExtentOf(CurvePointsOf(result))

\* C17: within one compute_section_with_hatch call all regions are hatched
\* against the same global bbox: the rectangle handed to the hatcher for
\* each region is the bbox over every projected point of the section,
\* whatever the order in which the wires are processed.
C17_HatchedAgainstGlobalBBox ==
    (Returned("section_hatch") /\ caught = "none") =>
        \A m \in 1..Len(result.regions) :
            result.regions[m].hatch_lines
              = generate_hatch_lines_for_region(result.regions[m].boundary,
                    args.hatch_angle, args.hatch_spacing, BBoxOf(result))

\* ------------------------------------------------------------------------
\* hlr_to_svg_path (projection.cpp).  Coordinates are held in units of
\* 1/10000; the stream prints them with std::fixed and setprecision(3).
\* ------------------------------------------------------------------------
LineType ==
    { "Visible", "Hidden", "VisibleSharp", "HiddenSharp", "VisibleSmooth",
      "HiddenSmooth", "VisibleSewn", "HiddenSewn", "VisibleOutline",
      "HiddenOutline", "IsoParametric" }

SvgHidden_AsDxf(type) ==
    \/ type = "Hidden"
    \/ type = "HiddenSharp"
    \/ type = "HiddenSmooth"
    \/ type = "HiddenOutline"

\* the classes skipped when visible_only is set
SvgHidden(type) ==
    \/ type = "Hidden"
    \/ type = "HiddenSharp"
    \/ type = "HiddenSmooth"
    \/ type = "HiddenOutline"
    \/ type = "HiddenSewn"

\* a value printed with 3 decimals, in thousandths (no value of the inputs
\* lies half way between two of them)
Fixed3(v) == IF v >= 0 THEN (v + 5) \div 10 ELSE - ((5 - v) \div 10)

Line2D(type) == [x1 |-> 12344, y1 |-> -5001, x2 |-> 20006, y2 |-> 0, type |-> type]

Polyline2D(points, type) == [points |-> points, type |-> type]

SvgLines == { Line2D(t) : t \in LineType }

SvgCurves ==
    { Polyline2D(pts, t) :
        pts \in { << <<7, 7>> >>, << <<0, 12346>>, <<10000, -9>>, <<30003, 4>> >> },
        t \in LineType }

\* the results with at most MaxPrims primitives
HLRResults ==
    UNION { UNION { { [lines |-> l, curves |-> c] :
                        l \in [1..nl -> SvgLines], c \in [1..nc -> SvgCurves] } :
                    nc \in 0..(MaxPrims - nl) } :
            nl \in 0..MaxPrims }

InitSvg ==
    /\ HatchIdle /\ AreaIdle
    /\ fn = "hlr_to_svg_path"
    /\ args \in { [hlr |-> h, visible_only |-> v] : h \in HLRResults, v \in BOOLEAN }
    /\ result = [svg |-> <<>>]
    /\ locals = [ci |-> 1, li |-> 1]
    /\ CallStart

\* "M x y" followed by " L x y" for each further point
SvgPath(points) ==
    [q \in 1..Len(points) |->
        [cmd |-> IF q = 1 THEN "M" ELSE "L",
         x |-> Fixed3(points[q][1]), y |-> Fixed3(points[q][2])]]

\* one iteration of the loop over hlr.curves
SvgCurve ==
    /\ fn = "hlr_to_svg_path" /\ cpc = "entry"
    /\ locals.ci <= Len(args.hlr.curves)
    /\ LET curve == args.hlr.curves[locals.ci] IN
       result' = IF args.visible_only /\ SvgHidden(curve.type) THEN result
                 ELSE IF Len(curve.points) < 2 THEN result
                 ELSE [svg |-> result.svg \o SvgPath(curve.points)]
    /\ locals' = [locals EXCEPT !.ci = @ + 1]
    /\ UNCHANGED <<fn, cpc, args, group, examined, box3d, caught, raised_at>>
    /\ UNCHANGED <<hatchVars, areaVars>>

\* one iteration of the loop over hlr.lines
SvgLine ==
    /\ fn = "hlr_to_svg_path" /\ cpc = "entry"
    /\ locals.ci > Len(args.hlr.curves)
    /\ locals.li <= Len(args.hlr.lines)
    /\ LET line == args.hlr.lines[locals.li] IN
       result' = IF args.visible_only /\ SvgHidden(line.type) THEN result
                 ELSE [svg |-> result.svg
                          \o SvgPath(<< <<line.x1, line.y1>>, <<line.x2, line.y2>> >>)]
    /\ locals' = [locals EXCEPT !.li = @ + 1]
    /\ UNCHANGED <<fn, cpc, args, group, examined, box3d, caught, raised_at>>
    /\ UNCHANGED <<hatchVars, areaVars>>

\* return svg.str()
SvgReturn ==
    /\ fn = "hlr_to_svg_path" /\ cpc = "entry"
    /\ locals.ci > Len(args.hlr.curves)
    /\ locals.li > Len(args.hlr.lines)
    /\ cpc' = "returned"
    /\ UNCHANGED <<fn, args, result, locals, group, examined, box3d, caught, raised_at>>
    /\ UNCHANGED <<hatchVars, areaVars>>

NextSvg == SvgCurve \/ SvgLine \/ SvgReturn

SpecSvg == InitSvg /\ [][NextSvg]_vars

\* the hidden classes, by name
HiddenClasses == { "Hidden", "HiddenSharp", "HiddenSmooth", "HiddenOutline", "HiddenSewn" }

\* the primitives of an HLR result as point lists with their class: the
\* polylines in their order, then the lines in their order
PrimitivesInOrder(hlr) ==
    [m \in 1..Len(hlr.curves) |-> [points |-> hlr.curves[m].points,
                                   type |-> hlr.curves[m].type]]
    \o [m \in 1..Len(hlr.lines) |->
          [points |-> << <<hlr.lines[m].x1, hlr.lines[m].y1>>,
                         <<hlr.lines[m].x2, hlr.lines[m].y2>> >>,
           type |-> hlr.lines[m].type]]

KeptPrimitives(hlr, visible_only) ==
    SelectSeq(PrimitivesInOrder(hlr),
              LAMBDA q : Len(q.points) >= 2 /\ ~ (visible_only /\ q.type \in HiddenClasses))

\* the move commands of the output, in order
Moves(svg) == SelectSeq(svg, LAMBDA c : c.cmd = "M")

\* the number of commands of the path of one primitive
RECURSIVE TotalPoints(_)
TotalPoints(prims) ==
    IF prims = <<>> THEN 0 ELSE Len(Head(prims).points) + TotalPoints(Tail(prims))

RECURSIVE CeilDiagOverSpacing(_, _, _)
CeilDiagOverSpacing(sq, spacing, k) ==
    IF k * spacing * k * spacing >= sq THEN k
    ELSE CeilDiagOverSpacing(sq, spacing, k + 1)

\* N = ceil(L / d) + 2 for the rectangle and the spacing of the call
CeilNumLines ==
    LET w == hatch_in.rect.max_x - hatch_in.rect.min_x
        h == hatch_in.rect.max_y - hatch_in.rect.min_y
    IN  CeilDiagOverSpacing(w * w + h * h, hatch_in.spacing, 0) + 2

\* C19: generate_hatch_lines_for_region examines exactly 2N+1 candidate
\* lines, with offset i*d for i = -N..N, where N = ceil(L/d) + 2 and L is the
\* diagonal of the rectangle R: once the loop is set up its counter runs
\* from -N and the function returns right after i = N.
C19_CandidateCount ==
    /\ hpc = "loop" => (num_lines = CeilNumLines /\ hi >= - CeilNumLines
                                                 /\ hi <= CeilNumLines + 1)
    /\ (hpc = "done" /\ Len(hatch_in.boundary) >= 3 /\ hatch_in.spacing > 0)
          => hi = CeilNumLines + 1

\* the pairs (t_2m, t_2m+1), m < floor(k/2), of the crossings collected for
\* the last hatch line that are further apart than 1e-6, in order
RECURSIVE LongPairsFrom(_)
LongPairsFrom(m) ==
    IF 2 * m > Len(intersections) THEN <<>>
    ELSE LET t1 == intersections[2 * m - 1]
             t2 == intersections[2 * m]
         IN  (IF RLess(Rat(1, MIN_HATCH_LEN_INV), RSub(t2, t1))
              THEN << <<t1, t2>> >> ELSE <<>>)
             \o LongPairsFrom(m + 1)

\* the segments pushed for the last hatch line, by their parameters
LastSegmentParams ==
    [m \in 1..Len(LastSegments) |->
        << ParamOnLast(LastSegments[m].start_x, LastSegments[m].start_y),
           ParamOnLast(LastSegments[m].end_x, LastSegments[m].end_y) >>]

\* C20: for each candidate line with k collected crossings sorted ascending
\* the emitted segments are exactly the consecutive pairs (t_2m, t_2m+1),
\* m < floor(k/2), whose length exceeds 1e-6; a trailing unpaired crossing
\* yields no segment; the segments of one line are in ascending order and
\* pairwise non-overlapping.
C20_ConsecutivePairs ==
    LineProcessed =>
        /\ \A j \in 1..(Len(intersections) - 1) :
              RLeq(intersections[j], intersections[j + 1])
        /\ LastSegmentParams = LongPairsFrom(1)
        /\ Len(LastSegments) <= Len(intersections) \div 2
        /\ \A m \in 1..(Len(LastSegments) - 1) :
              RLeq(LastSegmentParams[m][2], LastSegmentParams[m + 1][1])

\* a line with three crossings: one pair kept as a segment and a trailing
\* unpaired crossing
C20_Witness ==
    /\ LineProcessed
    /\ Len(intersections) = 3
    /\ Len(LastSegments) = 1
    /\ RLess(intersections[2], intersections[3])

\* the start-to-end vector of a hatch segment
SegmentVector(seg) ==
    [dx |-> RSub(seg.end_x, seg.start_x), dy |-> RSub(seg.end_y, seg.start_y)]

\* the vector is k * (cos, sin) of the angle with k > 1e-6: it is parallel to
\* the unit vector (cos, sin) and its component along it, which is then its
\* length, exceeds 1e-6
AlongAngle(seg, angle) ==
    LET v == SegmentVector(seg)
        along == RAdd(RMul(v.dx, cos_a(angle)), RMul(v.dy, sin_a(angle)))
    IN  /\ RSub(RMul(v.dx, sin_a(angle)), RMul(v.dy, cos_a(angle))) = RZero
        /\ RLess(Rat(1, MIN_HATCH_LEN_INV), along)

HatchRejected == Len(hatch_in.boundary) < 3 \/ hatch_in.spacing <= 0

\* C21: when generate_hatch_lines_for_region has returned, every segment in
\* its output list is longer than 1e-6 and its start-to-end vector is a
\* positive multiple of (cos, sin) of the requested hatch angle; with fewer
\* than 3 boundary points or spacing <= 0 no segment is returned and the
\* output list stays as it was.
C21_SegmentsAlongAngle ==
    hpc = "done" =>
        /\ \A m \in 1..Len(hatch_lines) : AlongAngle(hatch_lines[m], hatch_in.angle_deg)
        /\ HatchRejected => hatch_lines = <<>>

\* a finished call at -36.87 degrees that returned two segments or more
C21_Witness ==
    /\ hpc = "done"
    /\ hatch_in.angle_deg.deg = "-36.87"
    /\ Len(hatch_lines) >= 2

\* the number of hatch segments attached to the regions of a list
RECURSIVE AttachedSegments(_)
AttachedSegments(regions) ==
    IF regions = <<>> THEN 0
    ELSE Len(Head(regions).hatch_lines) + AttachedSegments(Tail(regions))

\* C22: in every result of compute_section_with_hatch num_hatch_lines is the
\* sum over the returned regions of the number of hatch segments attached to
\* the region, and hatch segments are attached to regions only: no curve,
\* open or closed, carries any.
C22_HatchLineTotal ==
    Returned("section_hatch") =>
        /\ result.num_hatch_lines = AttachedSegments(result.regions)
        /\ \A m \in 1..Len(result.curves) : "hatch_lines" \notin DOMAIN result.curves[m]
        /\ \A m \in 1..Len(result.regions) : "hatch_lines" \in DOMAIN result.regions[m]

\* a section of two hatched regions
C22_Witness ==
    /\ Returned("section_hatch") /\ caught = "none"
    /\ Len(result.regions) = 2
    /\ Len(result.regions[1].hatch_lines) > 0
    /\ Len(result.regions[2].hatch_lines) > 0
    /\ result.num_hatch_lines
         = Len(result.regions[1].hatch_lines) + Len(result.regions[2].hatch_lines)

\* the axes along which the normalized direction has a component above 0.9
DominantAxes(dir) == { a \in 1..3 : Dominant(dir[a], dir) }

\* the plane named by the dominant axis, whatever the order of the tests
PlaneOf(dir) ==
    IF DominantAxes(dir) = {2} THEN "XZ"
    ELSE IF DominantAxes(dir) = {1} THEN "YZ"
    ELSE "XY"

\* the extents of the 3D box on a coordinate plane, multiplied by scale
PlaneExtents(box, plane, scale) ==
    CASE plane = "XZ" -> [min_x |-> box.xmin * scale, min_y |-> box.zmin * scale,
                          max_x |-> box.xmax * scale, max_y |-> box.zmax * scale]
      [] plane = "YZ" -> [min_x |-> box.ymin * scale, min_y |-> box.zmin * scale,
                          max_x |-> box.ymax * scale, max_y |-> box.zmax * scale]
      [] OTHER        -> [min_x |-> box.xmin * scale, min_y |-> box.ymin * scale,
                          max_x |-> box.xmax * scale, max_y |-> box.ymax * scale]

Neg3(v) == << -v[1], -v[2], -v[3] >>

\* the fallback of compute_hlr_projection ran on a shape with a bounding box
FallbackRan ==
    /\ fn = "hlr" /\ cpc \in {"scale", "empty", "returned"}
    /\ caught = "none" /\ ~ box3d.void

\* C23: the HLR fallback picks its plane by the dominant component of the
\* normalized view direction: |dir.y| > 0.9 gives the XZ extents of the 3D
\* box, |dir.z| > 0.9 the XY extents, |dir.x| > 0.9 the YZ extents, anything
\* else XY; at most one of the three tests holds, so the order of the tests
\* does not matter; the plane is a function of the direction alone (not of
\* the up vector) and is the same for the opposite direction.
C23_PlaneByDominantAxis ==
    FallbackRan =>
        /\ Cardinality(DominantAxes(args.dir)) <= 1
        /\ BBoxOf(result) = PlaneExtents(box3d, PlaneOf(args.dir), args.scale)
        /\ ProjectedBox(box3d, Neg3(args.dir), args.scale)
             = ProjectedBox(box3d, args.dir, args.scale)

\* the fallback for a view along -x, scaled by 2: the YZ extents
C23_Witness ==
    /\ FallbackRan /\ cpc = "returned"
    /\ args.dir = <<-1, 0, 0>> /\ args.scale = 2
    /\ box3d = Box3D(FALSE, -1, -2, -3, 1, 2, 3)
    /\ BBoxOf(result) = [min_x |-> -4, min_y |-> -6, max_x |-> 4, max_y |-> 6]

\* the six groups of compute_hlr_projection_v2 were extracted without an
\* exception and produced no primitive
V2NothingExtracted ==
    /\ Returned("hlr_v2") /\ caught = "none" /\ group = 6
    /\ locals.numLines + locals.numArcs + locals.numPolylines = 0

\* res holds exactly the 4 VisibleOutline edges of the rectangle p
IsOutlineOf(res, p) ==
    /\ res.polylines = <<>>
    /\ Len(res.curves) = 4
    /\ \A m \in 1..Len(res.curves) :
          res.curves[m].curve_type = 0 /\ res.curves[m].line_type = 4
    /\ { << <<res.curves[m].start_x, res.curves[m].start_y>>,
            <<res.curves[m].end_x, res.curves[m].end_y>> >> : m \in 1..Len(res.curves) }
         = { << <<p[1], p[2]>>, <<p[3], p[2]>> >>, << <<p[3], p[2]>>, <<p[3], p[4]>> >>,
             << <<p[3], p[4]>>, <<p[1], p[4]>> >>, << <<p[1], p[4]>>, <<p[1], p[2]>> >> }

\* C24: compute_hlr_projection_v2 applies the fallback rule too: for a
\* non-null shape with a non-void 3D box, when the six groups produced zero
\* primitives it returns the 4 VisibleOutline edges of the projected, scaled
\* box rectangle instead of an empty result.
C24_V2FallsBack ==
    V2NothingExtracted =>
        \E box \in Boxes3D :
            /\ ~ box.void
            /\ IsOutlineOf(result, ProjectedBox(box, args.dir, args.scale))

\* the curve c is the primitive the curve type of edge e calls for, in the
\* group of the given class
IsCurveOf(c, e, class) ==
    /\ c.line_type = class
    /\ CASE e.kind = "Line"    -> c.curve_type = 0
         [] e.kind = "Circle"  -> /\ c.curve_type = IF e.first = 0 /\ e.last = 4 THEN 2 ELSE 1
                                  /\ c.ccw = ~ e.rev
         [] e.kind = "Ellipse" -> c.curve_type = 3
         [] OTHER              -> FALSE

\* the polyline pl is the tessellation of the edge e, of 2 points or more
IsPolylineOf(pl, e, class) ==
    /\ e.kind \notin {"Null", "Line", "Circle", "Ellipse"}
    /\ Len(e.pts) >= 2
    /\ pl.points = e.pts /\ pl.line_type = class

\* the curves cs are the primitives of the edges, in order: a circle or an
\* ellipse yields exactly one, a line at most one, any other edge none
RECURSIVE CurvesMatch(_, _, _)
CurvesMatch(cs, edges, class) ==
    IF edges = <<>> THEN cs = <<>>
    ELSE LET e == Head(edges) IN
         \/ /\ e.kind \notin {"Circle", "Ellipse"}
            /\ CurvesMatch(cs, Tail(edges), class)
         \/ /\ cs # <<>>
            /\ IsCurveOf(Head(cs), e, class)
            /\ CurvesMatch(Tail(cs), Tail(edges), class)

\* the polylines pls are those of the edges, in order: an edge that is not a
\* line, circle or ellipse yields one exactly when its tessellation has 2
\* points or more
RECURSIVE PolylinesMatch(_, _, _)
PolylinesMatch(pls, edges, class) ==
    IF edges = <<>> THEN pls = <<>>
    ELSE LET e == Head(edges) IN
         IF e.kind \notin {"Null", "Line", "Circle", "Ellipse"} /\ Len(e.pts) >= 2
         THEN /\ pls # <<>>
              /\ IsPolylineOf(Head(pls), e, class)
              /\ PolylinesMatch(Tail(pls), Tail(edges), class)
         ELSE PolylinesMatch(pls, Tail(edges), class)

\* what one extract_2d_curves call appends is chosen by the curve types of
\* the edges of its group
ExtractByCurveType ==
    (fn = "hlr_v2" /\ cpc = "extract" /\ group < 6) =>
        \E edges \in EdgeLists(MaxEdges - examined) :
            /\ Len(edges) = examined' - examined
            /\ CurvesMatch(SubSeq(result'.curves, Len(result.curves) + 1,
                                  Len(result'.curves)), edges, group)
            /\ PolylinesMatch(SubSeq(result'.polylines, Len(result.polylines) + 1,
                                     Len(result'.polylines)), edges, group)

\* the counters of a v2 result agree with each other and with its lists
CountsAgree(res) ==
    /\ res.num_edges = res.num_lines + res.num_arcs + res.num_polylines
    /\ res.num_edges = Len(res.curves) + Len(res.polylines)

\* C25: extract_2d_curves turns every edge with a non-null curve into at
\* most one primitive chosen by its curve type alone (Line: curve_type 0;
\* Circle: 1, or 2 when the parameter range is [0, 2*pi], with ccw true
\* unless the edge is REVERSED; Ellipse: 3; anything else: a polyline when
\* the tessellation has 2 points or more) that carries the class of its
\* group, and after the call num_edges = num_lines + num_arcs +
\* num_polylines = |curves| + |polylines|.
C25_DispatchAndCounts ==
    /\ [][ExtractByCurveType]_vars
    /\ [](Returned("hlr_v2") => CountsAgree(result))

\* C26: in every result of compute_section_with_hatch num_regions equals
\* the number of entries of regions, which equals the number of returned
\* curves with is_closed = true; closed wires dropped for having fewer than 3
\* points are not counted.
C26_RegionCount ==
    Returned("section_hatch") =>
        /\ result.num_regions = Len(result.regions)
        /\ Len(result.regions) = Len(ClosedCurves(result))

\* the point (x, y) lies on some edge of the closed polygon
OnBoundary(x, y, poly) ==
    \E j \in 1..Len(poly) : OnEdge(x, y, poly[j], poly[Succ(j, Len(poly))])

\* the point (x, y) lies in the rectangle, its border included
InRect(x, y, rect) ==
    /\ RLeq(RInt(rect.min_x), x) /\ RLeq(x, RInt(rect.max_x))
    /\ RLeq(RInt(rect.min_y), y) /\ RLeq(y, RInt(rect.max_y))

\* C27: when generate_hatch_lines_for_region has returned, both end points
\* of every segment in its output list lie on a boundary edge of the
\* polygon, so every segment stays inside the polygon's own bounding box,
\* also when the rectangle R handed in is wider than the polygon.
C27_EndpointsOnBoundary ==
    hpc = "done" =>
        \A m \in 1..Len(hatch_lines) :
            LET sg == hatch_lines[m]
                own == BoundsOf(hatch_in.boundary, 0)
            IN  /\ OnBoundary(sg.start_x, sg.start_y, hatch_in.boundary)
                /\ OnBoundary(sg.end_x, sg.end_y, hatch_in.boundary)
                /\ InRect(sg.start_x, sg.start_y, own)
                /\ InRect(sg.end_x, sg.end_y, own)

\* a finished call with a rectangle wider than the polygon that returned
\* segments
C27_Witness ==
    /\ hpc = "done"
    /\ hatch_in.rect # BoundsOf(hatch_in.boundary, 0)
    /\ hatch_in.angle_deg.deg = "53.13"
    /\ Len(hatch_lines) >= 2

\* ------------------------------------------------------------------------
\* generate_hatch_lines_for_region applied to a boundary, to its cyclic
\* rotations and to its reversal, with the angle, the spacing and the
\* rectangle held fixed
\* ------------------------------------------------------------------------
OrderAngles == { a \in HatchAngles : a.deg \in {"0", "53.13"} }

\* the counter-clockwise polygons, each from its least vertex, with the
\* closest spacing and the polygon's own rectangle, for which hatch lines
\* pass through vertices
OrderInputs ==
    { [boundary |-> b, angle_deg |-> a, spacing |-> 1, rect |-> BoundsOf(b, 0)] :
        b \in { q \in SimplePolygons : ShoelaceFrom(q, 1) > 0 }, a \in OrderAngles }

InitHatchOrder ==
    /\ AreaIdle
    /\ CallIdle
    /\ hatch_in \in OrderInputs
    /\ hpc = "entry"
    /\ hi = 0
    /\ num_lines = 0
    /\ intersections = <<>>
    /\ line_base = 0
    /\ hatch_lines = <<>>

HatchOutput(in) ==
    generate_hatch_lines_for_region(in.boundary, in.angle_deg, in.spacing, in.rect)

\* the call on the boundary as given
HatchCall ==
    /\ hpc = "entry"
    /\ hatch_lines' = HatchOutput(hatch_in)
    /\ hpc' = "called"
    /\ UNCHANGED <<hatch_in, hi, num_lines, intersections, line_base>>
    /\ UNCHANGED <<areaVars, callVars>>

\* the call on the boundary rotated by one position
HatchCallRotated ==
    /\ hpc = "called"
    /\ hatch_in' = [hatch_in EXCEPT !.boundary = RotateLeft(@)]
    /\ hatch_lines' = HatchOutput(hatch_in')
    /\ UNCHANGED <<hpc, hi, num_lines, intersections, line_base>>
    /\ UNCHANGED <<areaVars, callVars>>

\* the call on the reversed boundary
HatchCallReversed ==
    /\ hpc = "called"
    /\ hatch_in' = [hatch_in EXCEPT !.boundary = Reverse(@)]
    /\ hatch_lines' = HatchOutput(hatch_in')
    /\ UNCHANGED <<hpc, hi, num_lines, intersections, line_base>>
    /\ UNCHANGED <<areaVars, callVars>>

NextHatchOrder == HatchCall \/ HatchCallRotated \/ HatchCallReversed

SpecHatchOrder == InitHatchOrder /\ [][NextHatchOrder]_vars

\* the set of the segments of a list
SegmentSet(segs) == { segs[m] : m \in 1..Len(segs) }

\* C28: for a fixed angle, spacing and rectangle R the set of segments
\* returned by generate_hatch_lines_for_region is the same for every cyclic
\* rotation of the boundary point list and for the reversed list: the call
\* on the rotated or reversed boundary returns the set the call before it
\* returned.
C28_OrderIndependent ==
    [][(hpc = "called" /\ hpc' = "called")
          => SegmentSet(hatch_lines') = SegmentSet(hatch_lines)]_vars

\* a clockwise quadrilateral that does not start at its least vertex (it is
\* reached by a reversal and a rotation), hatched at 53.13 degrees
C28_Witness ==
    /\ hpc = "called"
    /\ Len(hatch_in.boundary) = 4
    /\ ShoelaceFrom(hatch_in.boundary, 1) < 0
    /\ \E j \in 2..4 : PointBefore(hatch_in.boundary[j], hatch_in.boundary[1])
    /\ hatch_in.angle_deg.deg = "53.13"
    /\ Len(hatch_lines) >= 3

\* ------------------------------------------------------------------------
\* hlr_to_dxf (projection.cpp).  The stream prints the coordinates with
\* std::fixed and setprecision(6).
\* ------------------------------------------------------------------------
\* the layer name written after group code 8
DxfLayer(type) ==
    IF \/ type = "Hidden"
       \/ type = "HiddenSharp"
       \/ type = "HiddenSmooth"
       \/ type = "HiddenOutline"
    THEN "HIDDEN"
    ELSE "VISIBLE"

\* a value held in units of 1/10000 printed with 6 decimals, in millionths
Fixed6(v) == v * 100

DxfPoints(points) ==
    [q \in 1..Len(points) |-> <<Fixed6(points[q][1]), Fixed6(points[q][2])>>]

InitDxf ==
    /\ HatchIdle /\ AreaIdle
    /\ fn = "hlr_to_dxf"
    /\ args \in { [hlr |-> h] : h \in HLRResults }
    /\ result = [dxf |-> <<>>]
    /\ locals = [ci |-> 1, li |-> 1]
    /\ CallStart

\* one iteration of the loop over hlr.lines: a LINE entity
DxfLine ==
    /\ fn = "hlr_to_dxf" /\ cpc = "entry"
    /\ locals.li <= Len(args.hlr.lines)
    /\ LET line == args.hlr.lines[locals.li] IN
       result' = [dxf |-> Append(result.dxf,
                     [entity |-> "LINE", layer |-> DxfLayer(line.type),
                      points |-> DxfPoints(<< <<line.x1, line.y1>>,
                                              <<line.x2, line.y2>> >>)])]
    /\ locals' = [locals EXCEPT !.li = @ + 1]
    /\ UNCHANGED <<fn, cpc, args, group, examined, box3d, caught, raised_at>>
    /\ UNCHANGED <<hatchVars, areaVars>>

\* one iteration of the loop over hlr.curves: an LWPOLYLINE entity, or
\* nothing for fewer than 2 points
DxfCurve ==
    /\ fn = "hlr_to_dxf" /\ cpc = "entry"
    /\ locals.li > Len(args.hlr.lines)
    /\ locals.ci <= Len(args.hlr.curves)
    /\ LET curve == args.hlr.curves[locals.ci] IN
       result' = IF Len(curve.points) < 2 THEN result
                 ELSE [dxf |-> Append(result.dxf,
                          [entity |-> "LWPOLYLINE", layer |-> DxfLayer(curve.type),
                           points |-> DxfPoints(curve.points)])]
    /\ locals' = [locals EXCEPT !.ci = @ + 1]
    /\ UNCHANGED <<fn, cpc, args, group, examined, box3d, caught, raised_at>>
    /\ UNCHANGED <<hatchVars, areaVars>>

\* return dxf.str()
DxfReturn ==
    /\ fn = "hlr_to_dxf" /\ cpc = "entry"
    /\ locals.li > Len(args.hlr.lines)
    /\ locals.ci > Len(args.hlr.curves)
    /\ cpc' = "returned"
    /\ UNCHANGED <<fn, args, result, locals, group, examined, box3d, caught, raised_at>>
    /\ UNCHANGED <<hatchVars, areaVars>>

NextDxf == DxfLine \/ DxfCurve \/ DxfReturn

SpecDxf == InitDxf /\ [][NextDxf]_vars

\* the classes of the primitives hlr_to_dxf writes, in the order of its
\* entities: the lines, then the polylines of 2 points or more
DxfWrittenTypes(hlr) ==
    [m \in 1..Len(hlr.lines) |-> hlr.lines[m].type]
    \o LET kept == SelectSeq(hlr.curves, LAMBDA c : Len(c.points) >= 2)
       IN  [m \in 1..Len(kept) |-> kept[m].type]

\* C29: the two exporters agree on which line classes are hidden: a
\* primitive is omitted by hlr_to_svg_path with visible_only set exactly
\* when hlr_to_dxf writes it on the HIDDEN layer, for every LineType value.
C29_ExportersAgree ==
    Returned("hlr_to_dxf") =>
        LET types == DxfWrittenTypes(args.hlr) IN
        /\ Len(result.dxf) = Len(types)
        /\ \A m \in 1..Len(types) :
              (result.dxf[m].layer = "HIDDEN") <=> SvgHidden(types[m])

\* ------------------------------------------------------------------------
\* generate_hatch_lines_for_region with the width of int kept.  num_lines
\* and i are ints of IntBits bits (32 in the build; the model keeps the
\* arithmetic and scales the width so that the whole range is explored).
\* ------------------------------------------------------------------------
IntBits == 5

\* the vector's storage: a push_back beyond it ends the process
MaxHatchLines == 12

INT_MAX == 2 ^ (IntBits - 1) - 1
INT_MIN == - (2 ^ (IntBits - 1))

IntWrap(v) == ((v - INT_MIN) % (2 ^ IntBits)) + INT_MIN

\* static_cast<int>(q) of a double q >= 0 that has no fraction left: the
\* value when it fits, otherwise undefined, where the conversion
\* instruction yields the smallest int and a saturating one the largest
CastToInt(q) == IF q <= INT_MAX THEN {q} ELSE {INT_MIN, INT_MAX}

\* the result of a signed operation whose exact value is v: v when it
\* fits, otherwise undefined, where the build either wraps or goes on with
\* the exact value in a wider register
SignedResult(v) ==
    IF v >= INT_MIN /\ v <= INT_MAX THEN {v} ELSE {IntWrap(v), v}

\* static_cast<int>(diag / spacing) over the values of the conversion
IntQuotient(rect, spacing) ==
    LET w == rect.max_x - rect.min_x
        h == rect.max_y - rect.min_y
    IN  CastToInt(DiagOverSpacing(w * w + h * h, spacing, 0))

\* three points of one straight line: a boundary no hatch line can fill
FlatBoundary == << <<0, 0>>, <<1, 0>>, <<GridMax, 0>> >>

IntBoundaries == { << <<0, 0>>, <<GridMax, 0>>, <<0, GridMax>> >>, FlatBoundary }

\* the widths of the section's bounding rectangle: diag / spacing below,
\* at and above the largest int for the spacings 1..MaxSpacing
IntWidths ==
    {GridMax, INT_MAX - 3, INT_MAX - 2, INT_MAX - 1, INT_MAX + 1, 2 * INT_MAX}

IntHatchInputs ==
    { [boundary |-> b, angle_deg |-> a, spacing |-> d,
       rect |-> [min_x |-> 0, min_y |-> 0, max_x |-> w, max_y |-> GridMax]] :
        b \in IntBoundaries, a \in HatchAngles, d \in 0..MaxSpacing,
        w \in IntWidths }

InitHatchInt ==
    /\ AreaIdle
    /\ CallIdle
    /\ hatch_in \in IntHatchInputs
    /\ hpc = "entry"
    /\ hi = 0
    /\ num_lines = 0
    /\ intersections = <<>>
    /\ line_base = 0
    /\ hatch_lines = <<>>

\* if (boundary.size() < 3 || spacing <= 0) return;
HatchIntReject ==
    /\ hpc = "entry"
    /\ (Len(hatch_in.boundary) < 3 \/ hatch_in.spacing <= 0)
    /\ hpc' = "done"
    /\ UNCHANGED <<hatch_in, hi, num_lines, intersections, line_base, hatch_lines>>
    /\ UNCHANGED <<areaVars, callVars>>

\* int num_lines = static_cast<int>(diag / spacing) + 2; int i = -num_lines
HatchIntEntry ==
    /\ hpc = "entry"
    /\ ~ (Len(hatch_in.boundary) < 3 \/ hatch_in.spacing <= 0)
    /\ \E q \in IntQuotient(hatch_in.rect, hatch_in.spacing) :
       \E n \in SignedResult(q + 2) :
       \E s \in SignedResult(- n) :
          /\ num_lines' = n
          /\ hi' = s
    /\ hpc' = "loop"
    /\ UNCHANGED <<hatch_in, intersections, line_base, hatch_lines>>
    /\ UNCHANGED <<areaVars, callVars>>

\* one iteration of for (int i = -num_lines; i <= num_lines; i++)
HatchIntLine ==
    /\ hpc = "loop"
    /\ hi <= num_lines
    /\ LET h == HatchOrigin(hatch_in.rect, hatch_in.angle_deg, hatch_in.spacing, hi)
           ts == LineIntersections(hatch_in.boundary, h, hatch_in.angle_deg)
           segs == LineSegments(ts, h, hatch_in.angle_deg)
       IN  /\ Len(hatch_lines) + Len(segs) <= MaxHatchLines
           /\ intersections' = ts
           /\ line_base' = Len(hatch_lines)
           /\ hatch_lines' = hatch_lines \o segs
    /\ hi' \in SignedResult(hi + 1)
    /\ UNCHANGED <<hatch_in, hpc, num_lines>>
    /\ UNCHANGED <<areaVars, callVars>>

\* hatch_lines.push_back finds no storage left: the process ends
HatchIntAbort ==
    /\ hpc = "loop"
    /\ hi <= num_lines
    /\ LET h == HatchOrigin(hatch_in.rect, hatch_in.angle_deg, hatch_in.spacing, hi)
           ts == LineIntersections(hatch_in.boundary, h, hatch_in.angle_deg)
           segs == LineSegments(ts, h, hatch_in.angle_deg)
       IN  Len(hatch_lines) + Len(segs) > MaxHatchLines
    /\ hpc' = "aborted"
    /\ UNCHANGED <<hatch_in, hi, num_lines, intersections, line_base, hatch_lines>>
    /\ UNCHANGED <<areaVars, callVars>>

\* the loop ends and the function returns
HatchIntReturn ==
    /\ hpc = "loop"
    /\ hi > num_lines
    /\ hpc' = "done"
    /\ UNCHANGED <<hatch_in, hi, num_lines, intersections, line_base, hatch_lines>>
    /\ UNCHANGED <<areaVars, callVars>>

NextHatchInt ==
    HatchIntReject \/ HatchIntEntry \/ HatchIntLine \/ HatchIntAbort \/ HatchIntReturn

\* a call that has started keeps running
SpecHatchInt == InitHatchInt /\ [][NextHatchInt]_vars /\ WF_vars(NextHatchInt)

\* C30: generate_hatch_lines_for_region terminates for every boundary,
\* every spacing > 0 and every finite rectangle R: the candidate count N
\* computed from diagonal/spacing is a non-negative value representable in
\* an int (static_cast<int>(diag / spacing) + 2 without overflow), every
\* value the counter i takes in the 2N+1 steps from -N is representable,
\* and the loop ends after finitely many iterations: each iteration moves
\* i one step up, i never passes N + 1, and the call is not cut short.
C30_Terminates ==
    /\ [](hpc = "loop" =>
            /\ num_lines = HatchNumLines(hatch_in.rect, hatch_in.spacing)
            /\ num_lines >= 0 /\ num_lines <= INT_MAX
            /\ hi >= - num_lines /\ hi <= num_lines + 1 /\ hi <= INT_MAX)
    /\ [][(hpc = "loop" /\ hpc' = "loop") => hi' = hi + 1]_vars
    /\ [](hpc # "aborted")

====
